---- MODULE Spec2Model ----
(***************************************************************************)
(* Resumable chunked upload of kuake_cli (sdk/file.go, the version with    *)
(* the upload-state record): UploadFile, its helpers upPre / upHash /      *)
(* upPart / upCommit / upFinish and the session record on disk.            *)
(*                                                                         *)
(* One upload runs at a time (a single goroutine of sequential control).   *)
(* The remote service, the object store, the local file system and process *)
(* termination are the environment: their answers are chosen with \E.      *)
(*                                                                         *)
(* Modelling conventions                                                   *)
(*  - The negotiation parameters TaskID, Bucket, ObjKey, UploadID,         *)
(*    UploadURL, AuthInfo and Callback are always copied together; they    *)
(*    are one session identifier (field id / UploadID).                    *)
(*  - An ETag is an opaque token [sess, n, ver, q]: the upload id it was   *)
(*    issued under, the number of the server's answer for that part, the   *)
(*    content version of the bytes that were sent (history information)    *)
(*    and whether the string still carries its double quotes.              *)
(*  - md5 in getUploadStatePath is taken to be injective on its input.     *)
(*  - The local file changes only between invocations.                     *)
(***************************************************************************)
EXTENDS Integers, Sequences, FiniteSets, TLC

\* ------------------------------------------------------------------ bounds
MaxFileSize == 2     \* local file sizes 0..MaxFileSize bytes
MaxPartSize == 2     \* part sizes the pre-upload answer may name: 1..MaxPartSize
MaxRestore  == 1     \* times the object store replaces a part it already holds, per upload id
MaxVer      == 2     \* content versions of the local file

PartNumbers == 1..MaxFileSize

\* The (localPath, destPath) pairs that are uploaded.  Both local paths name
\* the same file (hard links); both pairs yield the same state-file name.
Uploads == { <<"a|/b", "/c">>, <<"a", "/b|/c">> }

\* ------------------------------------------------------------ values
NoEtag == [sess |-> 0, n |-> 0, ver |-> 0, q |-> FALSE]

NoParts == [i \in {} |-> NoEtag]

NoStored == [i \in PartNumbers |-> NoEtag]

\* A state file.  form tells how its content parses: "ok", "nilmap" (the JSON
\* has no uploaded_parts object: the map is nil after json.Unmarshal and is
\* written back as null) or "garbage" (json.Unmarshal fails).
NoState ==
  [exists |-> FALSE, form |-> "ok", FilePath |-> "", DestPath |-> "", FileSize |-> 0,
   UploadID |-> 0, PartSize |-> 0, UploadedParts |-> NoParts]

NoPre == [id |-> 0, PartSize |-> 0]

NoResult == [Success |-> FALSE, Code |-> ""]

\* The invocation ended in a Go panic: nothing was returned.
Panicked == [Success |-> FALSE, Code |-> "", Panic |-> TRUE]

NoSave == [k |-> 0, fp |-> "", dp |-> ""]

NoResp == [kind |-> "", etag |-> NoEtag]

Min(a, b) == IF a < b THEN a ELSE b

\* ------------------------------------------------------------ state
VARIABLES
  file,            \* the local file: [size, ver]
  disk,            \* state files: state-file name -> UploadState (NoState: no file)
  srvParts,        \* object store: part number -> ETag of the stored part (current upload id)
  pc,              \* position of UploadFile
  filePath, destPath, fileSize,         \* arguments and the stat result
  pre, useSavedState, savedState,       \* locals of UploadFile
  etags, startPartNumber, partNumber, offset, chunkLen,
  resp,            \* answer of the object store to the part-PUT in flight
  commitReq,       \* part list of the commit request in flight
  result,          \* *StandardResponse returned by the last invocation
  calls,           \* history: remote requests of this invocation
  progress,        \* history: percents reported to progressCallback (when one is given)
  mismatch,        \* history: this invocation deleted a record that did not match
  lastOk,          \* history: part number -> ETag upPart returned last (current upload id)
  lastSave,        \* history: latest save of a non-resumed invocation, still on disk
  resumeK,         \* history: lastSave.k of the terminated invocation this one follows
  remote,          \* the drive: directory fid -> its listing as the service answers it
  query, info,     \* argument and answer of the last GetFileInfo call made on its own
                   \* (forgotten when UploadFile starts or the drive changes)
  dpc,             \* position of UploadFile in its destination-directory stage
  destDirPath,     \* components of the directory part of destPath
  idx,             \* index of the component the creation loop is at
  lastCreatedFid,  \* fid of the folder the loop created last ("" when none)
  destDirFid,      \* parent fid handed to upPre
  dresult,         \* Code returned by the directory stage ("" while it runs or succeeds)
  reqs,            \* history: folder-creation and pre-upload requests of the stage,
                   \* each with the fid the service answered ("" when none)
  hpc,             \* position of the hash-context round trip
  hP, hQ,          \* the bytes hashed before and after the capture
  captured,        \* the HashState captured after hP
  sumResumed,      \* digest of the restored accumulator fed hQ
  sumOnePass,      \* digest of hP followed by hQ, hashed in one pass
  spc,             \* position of the save/load round trip of one UploadState
  sess,            \* the UploadState in memory
  stateFile,       \* the JSON document saveUploadState wrote (NoFile: none)
  loadedState,     \* the UploadState loadUploadState returned
  ntok,            \* len(qc.accessTokens)
  cur,             \* qc.currentTokenIdx; qc.accessToken and qc.cookies are those of cur
  failed,          \* qc.failedTokens: the indexes marked failed
  valid,           \* qc.authCheckValid
  age,             \* time.Since(qc.lastAuthCheck), counted up to AuthCheckTimeout
  writer,          \* the goroutine that holds authCheckMutex exclusively (0: none)
  apc,             \* goroutine -> its position in makeRequest / checkAuth / upPart
  aop,             \* goroutine -> the request it is making
  nswitch,         \* history: goroutine -> calls of switchToNextToken in its checkAuth
  how,             \* history: goroutine -> how its checkAuth ended
  okAge,           \* history: time since the credential cur was validated with
                   \* success, counted up to AuthCheckTimeout (not since: AuthCheckTimeout)
  vcount,          \* history: validations that succeeded at the present instant
  lastReq,         \* history: the request sent last
  npc,             \* position of the double application of normalizePath
  pIn,             \* the path given, a sequence of characters
  pOnce,           \* normalizePath(pIn)
  pTwice,          \* normalizePath(pOnce)
  pRoot,           \* normalizeRootDir(pIn)
  pInfo,           \* what GetFileInfo(pIn) does first
  pDest,           \* what UploadFile makes of the destination pIn
  started,         \* TaskQueue: Start was called, the workers run
  stopped,         \* TaskQueue: stopCh is closed
  ids,             \* task -> its ID, in the order of creation (tasks are 1..Len(ids))
  status,          \* task -> Task.Status
  tasks,           \* q.tasks: ID -> task
  pending,         \* q.pending
  running,         \* q.running
  completed,       \* q.completed
  wk,              \* worker -> its position and the task it holds
  executed,        \* history: task -> calls of executor.Execute with it
  cancelled,       \* history: the tasks for which CancelTask returned nil
  wpc,             \* the position of the caller of Wait
  lpc,             \* listByFid against any service: its position
  lcount,          \* len(allFileList), counted up to MaxCount
  lpage,           \* page, known modulo MaxPage
  lresp            \* the answer to the last page request

env    == <<file, disk, srvParts>>
locals == <<pc, filePath, destPath, fileSize, pre, useSavedState, savedState,
            etags, startPartNumber, partNumber, offset, chunkLen, resp, commitReq>>
hist   == <<calls, progress, mismatch, lastOk, lastSave, resumeK>>
dirs   == <<remote, query, info, dpc, destDirPath, idx, lastCreatedFid, destDirFid,
            dresult, reqs>>
codec  == <<hpc, hP, hQ, captured, sumResumed, sumOnePass>>
store  == <<spc, sess, stateFile, loadedState>>
auth   == <<ntok, cur, failed, valid, age, writer, apc, aop, nswitch, how, okAge,
            vcount, lastReq>>
npath  == <<npc, pIn, pOnce, pTwice, pRoot, pInfo, pDest>>
tq     == <<started, stopped, ids, status, tasks, pending, running, completed, wk,
            executed, cancelled, wpc>>
lst    == <<lpc, lcount, lpage, lresp>>
other  == <<dirs, codec, store, auth, npath, tq, lst>>
upload == <<env, locals, result, hist>>
vars   == <<upload, other>>
exceptDirs  == <<upload, codec, store, auth, npath, tq, lst>>
exceptCodec == <<upload, dirs, store, auth, npath, tq, lst>>
exceptStore == <<upload, dirs, codec, auth, npath, tq, lst>>
exceptAuth  == <<upload, dirs, codec, store, npath, tq, lst>>
exceptPath  == <<upload, dirs, codec, store, auth, tq, lst>>
exceptQueue == <<upload, dirs, codec, store, auth, npath, lst>>
exceptList  == <<upload, dirs, codec, store, auth, npath, tq>>

\* ------------------------------------------------------------ helpers of file.go
\* getUploadStatePath: the state-file name is a hash of filePath + "|" + destPath.
getUploadStatePath(fp, dp) == fp \o "|" \o dp

StatePaths == { getUploadStatePath(u[1], u[2]) : u \in Uploads }

\* strings.Trim(etag, "\""): the quotes at both ends are removed.
trimQuotes(e) == [e EXCEPT !.q = FALSE]

\* loadUploadState: os.ReadFile and json.Unmarshal both succeed.
loadUploadState(state) == state.exists /\ state.form # "garbage"

\* Mutant: the size of the file is not compared.
StateMatchesNoSize(state, fp, dp, sz) == state.FilePath = fp /\ state.DestPath = dp

\* UploadFile, validation of a loaded record: local path, destination and size.
StateMatches(state, fp, dp, sz) ==
  state.FilePath = fp /\ state.DestPath = dp /\ state.FileSize = sz

MaxOf(S) == IF S = {} THEN 0 ELSE CHOOSE m \in S : \A x \in S : x <= m

\* UploadFile, resume: the loop over 1..maxPart stops at the first part number
\* without a recorded ETag; startPartNumber is that number, or maxPart + 1.
ResumeStart(parts) ==
  LET maxPart == MaxOf(DOMAIN parts)
      missing == { i \in 1..maxPart : i \notin DOMAIN parts }
  IN  IF missing = {} THEN maxPart + 1
      ELSE CHOOSE i \in missing : \A j \in missing : i <= j

\* UploadFile, resume: etags holds the recorded ETags of parts 1..startPartNumber-1.
ResumeEtags(parts) == [i \in 1..(ResumeStart(parts) - 1) |-> parts[i]]

\* Mutant: the file is not positioned at the resume offset.
SkipBytesNone(saved, start, partSize) == 0

\* UploadFile: file.Seek(int64(startPartNumber-1) * partSize) when resuming past part 1.
SkipBytes(saved, start, partSize) ==
  IF saved /\ start > 1 /\ (start - 1) * partSize > 0 THEN (start - 1) * partSize ELSE 0

\* The UploadState built from the negotiation in use (&UploadState{...}, empty part map).
FreshState(fp, dp, sz, p) ==
  [exists |-> TRUE, form |-> "ok", FilePath |-> fp, DestPath |-> dp, FileSize |-> sz,
   UploadID |-> p.id, PartSize |-> p.PartSize, UploadedParts |-> NoParts]

\* m[k] = v on a Go map.
MapPut(m, k, v) == [i \in (DOMAIN m) \cup {k} |-> IF i = k THEN v ELSE m[i]]

\* Mutant: on failure the record is written without the ETags of this invocation.
StateOnFailureNoEtags(saved, useSaved, fresh, tags) == IF useSaved THEN saved ELSE fresh

\* UploadFile, failure of a read or of a part-PUT: the record that is written.
\* A non-resumed invocation builds a new record; every ETag of etags is entered.
StateOnFailure(saved, useSaved, fresh, tags) ==
  LET base == IF useSaved THEN saved ELSE fresh
  IN  [base EXCEPT !.UploadedParts =
         [i \in (DOMAIN base.UploadedParts) \cup (1..Len(tags)) |->
            IF i \in 1..Len(tags) THEN tags[i] ELSE base.UploadedParts[i]]]

\* UploadFile, after a successful part-PUT: the record that is written.
\* A non-resumed invocation builds a new record (with an empty part map) each
\* time; only the ETag of the part just sent is entered.
StateOnSuccess(saved, useSaved, fresh, part, etag) ==
  LET base == IF useSaved THEN saved ELSE fresh
  IN  [base EXCEPT !.UploadedParts = MapPut(base.UploadedParts, part, etag)]

\* UploadFile, progress: uploaded = min(partNumber*partSize, fileSize);
\* progress = min(int(uploaded / fileSize * 100), 100).
Percent(part, partSize, sz) ==
  LET uploaded == Min(part * partSize, sz)
  IN  Min((uploaded * 100) \div sz, 100)

\* Mutant: every status >= 400 is an error.
upPartResultNo409(r) ==
  IF r.kind = "ok200" THEN [ok |-> TRUE, etag |-> r.etag] ELSE [ok |-> FALSE, etag |-> NoEtag]

\* upPart: what it returns for an answer r of the object store.  r.etag is the
\* ETag header of a 200 or the PartEtag of a 409 PartAlreadyExist; a transport
\* error, another status >= 400 and a 200 without ETag are errors.
RespKinds == {"ok200", "noEtag200", "status4xx", "409etag", "409noEtag", "netErr"}

upPartResult(r) ==
  CASE r.kind = "ok200"   -> [ok |-> TRUE, etag |-> r.etag]
    [] r.kind = "409etag" -> [ok |-> TRUE, etag |-> trimQuotes(r.etag)]
    [] OTHER              -> [ok |-> FALSE, etag |-> NoEtag]

\* upCommit: the <Part> elements of the XML body, PartNumber = index + 1.
upCommitParts(tags) == [i \in 1..Len(tags) |-> [PartNumber |-> i, ETag |-> tags[i]]]

\* GetFileInfo has not been called.
NoInfo == [Success |-> FALSE, Code |-> "", fid |-> "", listed |-> <<>>, list |-> <<>>]

\* No HashState has been captured.
NoHashState == [h0 |-> 0, h1 |-> 0, h2 |-> 0, h3 |-> 0, h4 |-> 0,
                Nl |-> 0, Nh |-> 0, data |-> <<>>, num |-> 0]

IdleCodec ==
  /\ hpc = "new" /\ hP = <<>> /\ hQ = <<>> /\ captured = NoHashState
  /\ sumResumed = <<>> /\ sumOnePass = <<>>

\* The destination-directory stage is not running, the drive holds the root
\* directory only and no hash context is in use.
IdleDirs ==
  /\ remote = [f \in {"0"} |-> [entries |-> <<>>, total |-> TRUE, ok |-> TRUE]]
  /\ query = <<>> /\ info = NoInfo
  /\ dpc = "idle" /\ destDirPath = <<>> /\ idx = 0
  /\ lastCreatedFid = "" /\ destDirFid = "" /\ dresult = "" /\ reqs = <<>>

\* No UploadState is being saved or loaded on its own.
NoFile == [written |-> FALSE]

NoSession == [FilePath |-> <<>>]

IdleStore ==
  /\ spc = "new" /\ sess = NoSession /\ stateFile = NoFile /\ loadedState = NoSession

\* The client as NewQuarkClient makes it, with one token and no goroutine
\* at work.
AuthCheckTimeout == 2

Goroutines == {1, 2}

NoReq == [kind |-> "", cred |-> 0, g |-> 0, marked |-> FALSE, okAge |-> 0]

IdleAuth ==
  /\ ntok = 1 /\ cur = 0 /\ failed = {} /\ valid = FALSE /\ age = AuthCheckTimeout
  /\ writer = 0
  /\ apc = [g \in Goroutines |-> "idle"] /\ aop = [g \in Goroutines |-> ""]
  /\ nswitch = [g \in Goroutines |-> 0] /\ how = [g \in Goroutines |-> ""]
  /\ okAge = AuthCheckTimeout /\ vcount = 0 /\ lastReq = NoReq

\* normalizePath is not being applied on its own.
NoRootInfo == [root |-> FALSE, fid |-> "", dir |-> FALSE, requests |-> 0]

NoDest == [destPath |-> <<>>, destFileName |-> <<>>, destDirPath |-> <<>>]

IdlePath ==
  /\ npc = "" /\ pIn = <<>> /\ pOnce = <<>> /\ pTwice = <<>>
  /\ pRoot = <<>> /\ pInfo = NoRootInfo /\ pDest = NoDest

\* The queue as NewTaskQueue makes it.
Workers == {1, 2}

IdleQueue ==
  /\ started = FALSE /\ stopped = FALSE
  /\ ids = <<>> /\ status = <<>> /\ tasks = <<>>
  /\ pending = <<>> /\ running = <<>> /\ completed = <<>>
  /\ wk = [w \in Workers |-> [pc |-> "idle", task |-> 0]]
  /\ executed = <<>> /\ cancelled = {} /\ wpc = "none"

NoPage == [ok |-> TRUE, n |-> 0, total |-> -1]

\* listByFid is not running against a service of its own.
IdleList == lpc = "" /\ lcount = 0 /\ lpage = 1 /\ lresp = NoPage

IdleOther ==
  IdleCodec /\ IdleDirs /\ IdleStore /\ IdleAuth /\ IdlePath /\ IdleQueue /\ IdleList

\* UploadFile has not been called; the file is empty and no state file exists.
IdleUpload ==
  /\ file = [size |-> 0, ver |-> 1]
  /\ disk = [p \in StatePaths |-> NoState]
  /\ srvParts = NoStored
  /\ pc = "idle" /\ filePath = "" /\ destPath = "" /\ fileSize = 0
  /\ pre = NoPre /\ useSavedState = FALSE /\ savedState = NoState
  /\ etags = <<>> /\ startPartNumber = 1 /\ partNumber = 1 /\ offset = 0 /\ chunkLen = 0
  /\ resp = NoResp /\ commitReq = <<>>
  /\ result = NoResult
  /\ calls = <<>> /\ progress = <<>> /\ mismatch = FALSE
  /\ lastOk = NoStored
  /\ lastSave = NoSave /\ resumeK = 0

\* ------------------------------------------------------------ initial state
Init ==
  /\ IdleOther
  /\ file \in [size : 0..MaxFileSize, ver : {1}]
  /\ disk = [p \in StatePaths |-> NoState]
  /\ srvParts = NoStored
  /\ pc = "idle" /\ filePath = "" /\ destPath = "" /\ fileSize = 0
  /\ pre = NoPre /\ useSavedState = FALSE /\ savedState = NoState
  /\ etags = <<>> /\ startPartNumber = 1 /\ partNumber = 1 /\ offset = 0 /\ chunkLen = 0
  /\ resp = NoResp /\ commitReq = <<>>
  /\ result = NoResult
  /\ calls = <<>> /\ progress = <<>> /\ mismatch = FALSE
  /\ lastOk = NoStored
  /\ lastSave = NoSave /\ resumeK = 0

\* ------------------------------------------------------------ steps of UploadFile
ResetLocals ==
  /\ pc' = "idle" /\ filePath' = "" /\ destPath' = "" /\ fileSize' = 0
  /\ pre' = NoPre /\ useSavedState' = FALSE /\ savedState' = NoState
  /\ etags' = <<>> /\ startPartNumber' = 1 /\ partNumber' = 1 /\ offset' = 0 /\ chunkLen' = 0
  /\ resp' = NoResp /\ commitReq' = <<>>
  /\ calls' = <<>> /\ progress' = <<>> /\ mismatch' = FALSE /\ resumeK' = 0

\* The control leaves UploadFile with the state files d and the object store
\* holding parts.  When no record is left, nothing refers to the upload id any
\* more (the next invocation negotiates a new one) and its parts are forgotten.
Leave(d, parts) ==
  /\ disk' = d
  /\ IF \E p \in StatePaths : d[p].exists
     THEN srvParts' = parts /\ UNCHANGED lastOk
     ELSE srvParts' = NoStored /\ lastOk' = NoStored
  /\ ResetLocals
  /\ UNCHANGED <<other, file>>

\* return &StandardResponse{Success, Code, ...}, nil
Return(success, code, d) ==
  /\ result' = [Success |-> success, Code |-> code]
  /\ lastSave' = NoSave
  /\ Leave(d, srvParts)

\* OSSPartUploadHeaderBuilder.BuildHeaders: the headers of a part-PUT, under
\* the canonical names http.Header.Set gives them.
BuildHeaders == {"Authorization", "Content-Type", "X-Oss-Date", "X-Oss-User-Agent"}

Call(op, part, kind) == calls' = Append(calls, [op |-> op, part |-> part, kind |-> kind])

StatePath == getUploadStatePath(filePath, destPath)

Fresh == FreshState(filePath, destPath, fileSize, pre)

\* os.Open, file.Stat (destPath is given normalized and names a file), then
\* loadUploadState and the validation of the record.
Open ==
  /\ pc = "idle"
  /\ \E u \in Uploads, ok \in BOOLEAN :
       IF ~ok THEN Return(FALSE, "FILE_OPEN_ERROR", disk)
       ELSE LET path  == getUploadStatePath(u[1], u[2])
                state == disk[path]
                loaded == loadUploadState(state)
                trust == loaded /\ StateMatches(state, u[1], u[2], file.size)
            IN  /\ filePath' = u[1] /\ destPath' = u[2]
                /\ fileSize' = file.size
                /\ result' = NoResult
                /\ resumeK' = IF lastSave.fp = u[1] /\ lastSave.dp = u[2]
                              THEN lastSave.k ELSE 0
                /\ IF trust
                   THEN /\ pre' = [id |-> state.UploadID, PartSize |-> state.PartSize]
                        /\ useSavedState' = TRUE /\ savedState' = state
                        /\ pc' = "hash"
                        /\ UNCHANGED <<disk, mismatch, lastSave>>
                   ELSE /\ disk' = IF loaded THEN [disk EXCEPT ![path] = NoState]
                                   ELSE disk
                        /\ mismatch' = loaded
                        /\ lastSave' = IF loaded THEN NoSave ELSE lastSave
                        /\ pc' = "pre"
                        /\ UNCHANGED <<pre, useSavedState, savedState>>
                /\ UNCHANGED <<other, file, srvParts, etags, startPartNumber, partNumber, offset,
                               chunkLen, resp, commitReq, calls, progress, lastOk>>

\* An upload id no record, local or stored part refers to.  When upPre is
\* called the record of the key has been deleted (or never existed), so the
\* only id still referred to is the one of the session that is given up.
NewId == IF pre.id = 1 THEN 2 ELSE 1

\* upPre answered with a new task: a new upload id without parts.
Negotiated(next) ==
  /\ \E ps \in 1..MaxPartSize : pre' = [id |-> NewId, PartSize |-> ps]
  /\ srvParts' = NoStored
  /\ lastOk' = NoStored
  /\ Call("pre", 0, "ok")
  /\ pc' = next
  /\ UNCHANGED <<other, file, disk, filePath, destPath, fileSize, useSavedState, savedState,
                 etags, startPartNumber, partNumber, offset, chunkLen, resp, commitReq, result,
                 progress, mismatch, lastSave, resumeK>>

\* upPre when no record is used.
UpPre ==
  /\ pc = "pre"
  /\ \/ Negotiated("hash")
     \/ Return(FALSE, "PRE_UPLOAD_ERROR", disk)

\* After the hash check: instant upload, or the recorded ETags are restored
\* and the file is positioned at the first part to send.
AfterHash(kind, saved) ==
  IF kind = "finish"
  THEN /\ pc' = "instant"
       /\ UNCHANGED <<etags, startPartNumber, partNumber, offset>>
  ELSE LET parts == savedState.UploadedParts
           start == IF saved THEN ResumeStart(parts) ELSE 1
       IN  /\ etags' = IF saved THEN ResumeEtags(parts) ELSE <<>>
           /\ startPartNumber' = start
           /\ partNumber' = start
           /\ offset' = SkipBytes(saved, start, pre.PartSize)
           /\ pc' = "read"

\* io.Copy into md5 and sha1, then upHash with the task id in use.
UpHash ==
  /\ pc = "hash"
  /\ \E kind \in {"readErr", "err", "finish", "noFinish"} :
       CASE kind = "readErr" -> Return(FALSE, "CALCULATE_HASH_ERROR", disk)
         [] kind = "err" /\ ~useSavedState -> Return(FALSE, "HASH_VERIFICATION_ERROR", disk)
         [] kind = "err" /\ useSavedState ->
              /\ disk' = [disk EXCEPT ![StatePath] = NoState]
              /\ lastSave' = NoSave
              /\ Call("hash", 0, "err")
              /\ pc' = "pre2"
              /\ UNCHANGED <<other, file, srvParts, filePath, destPath, fileSize, pre,
                             useSavedState, savedState, etags, startPartNumber, partNumber,
                             offset, chunkLen, resp, commitReq, result, progress, mismatch,
                             lastOk, resumeK>>
         [] OTHER ->
              /\ Call("hash", 0, kind)
              /\ AfterHash(kind, useSavedState)
              /\ UNCHANGED <<other, env, filePath, destPath, fileSize, pre, useSavedState,
                             savedState, chunkLen, resp, commitReq, result, progress, mismatch,
                             lastOk, lastSave, resumeK>>

\* upPre again after the hash submission failed on a saved session.
UpPreAgain ==
  /\ pc = "pre2"
  /\ \/ Negotiated("hash2")
     \/ Return(FALSE, "PRE_UPLOAD_ERROR", disk)

\* Mutant: a second failure of upHash starts over with upPre.
UpHashAgainRetries ==
  /\ pc = "hash2"
  /\ Call("hash", 0, "err")
  /\ pc' = "pre2"
  /\ UNCHANGED <<other, env, filePath, destPath, fileSize, pre, useSavedState, savedState,
                 etags, startPartNumber, partNumber, offset, chunkLen, resp, commitReq,
                 result, progress, mismatch, lastOk, lastSave, resumeK>>

\* upHash again with the new task id; useSavedState = false on success.
UpHashAgain ==
  /\ pc = "hash2"
  /\ \E kind \in {"err", "finish", "noFinish"} :
       IF kind = "err" THEN Return(FALSE, "HASH_VERIFICATION_ERROR", disk)
       ELSE /\ Call("hash", 0, kind)
            /\ useSavedState' = FALSE
            /\ AfterHash(kind, FALSE)
            /\ UNCHANGED <<other, env, filePath, destPath, fileSize, pre, savedState,
                           chunkLen, resp, commitReq, result, progress, mismatch, lastOk,
                           lastSave, resumeK>>

\* Instant upload: upFinish alone, then progress 100 is reported.
InstantFinish ==
  /\ pc = "instant"
  /\ \E ok \in BOOLEAN :
       IF ok
       THEN /\ Call("finish", 0, "ok")
            /\ progress' = Append(progress, 100)
            /\ pc' = "instantDone"
            /\ UNCHANGED <<other, env, filePath, destPath, fileSize, pre, useSavedState,
                           savedState, etags, startPartNumber, partNumber, offset, chunkLen,
                           resp, commitReq, result, mismatch, lastOk, lastSave, resumeK>>
       ELSE Return(FALSE, "FINISH_UPLOAD_ERROR", disk)

\* Mutant: the record is kept after an instant upload.
InstantDoneKeepsRecord ==
  /\ pc = "instantDone"
  /\ Return(TRUE, "OK", disk)

\* Instant upload: the record is deleted and success is returned.
InstantDone ==
  /\ pc = "instantDone"
  /\ Return(TRUE, "OK", [disk EXCEPT ![StatePath] = NoState])

\* A Go panic inside UploadFile (no recover): the process ends.
Panic ==
  /\ result' = Panicked
  /\ lastSave' = NoSave
  /\ Leave(disk, srvParts)

\* savedState.UploadedParts[k] = etag on the record in use panics when the map
\* is nil; a record built by this invocation has make(map[int]string).
NilMapWrite(saved, useSaved) == useSaved /\ saved.form = "nilmap"

\* A failure inside the transfer loop: the record is written, the error returned.
FailTransfer(code, parts) ==
  IF NilMapWrite(savedState, useSavedState) /\ Len(etags) > 0 THEN Panic
  ELSE /\ result' = [Success |-> FALSE, Code |-> code]
       /\ lastSave' = NoSave
       /\ Leave([disk EXCEPT ![StatePath] =
                   StateOnFailure(savedState, useSavedState, Fresh, etags)], parts)

\* chunk := make([]byte, partSize) (a negative length panics), then
\* file.Read(chunk) at the head of the transfer loop.
ReadChunk ==
  /\ pc = "read"
  /\ \E ok \in BOOLEAN :
       IF pre.PartSize < 0 THEN Panic
       ELSE IF ~ok
       THEN FailTransfer("READ_FILE_ERROR", srvParts)
       ELSE LET n == IF offset >= file.size THEN 0
                     ELSE Min(pre.PartSize, file.size - offset)
            IN  /\ pc' = IF n = 0 THEN "commit" ELSE "put"
                /\ chunkLen' = n
                /\ offset' = offset + n
                /\ UNCHANGED <<other, env, filePath, destPath, fileSize, pre, useSavedState,
                               savedState, etags, startPartNumber, partNumber, resp, commitReq,
                               result, hist>>

\* How often the object store has replaced a part under the current upload id.
RECURSIVE SumRestored(_)
SumRestored(S) ==
  IF S = {} THEN 0
  ELSE LET i == CHOOSE x \in S : TRUE
       IN  (IF srvParts[i].n > 1 THEN srvParts[i].n - 1 ELSE 0) + SumRestored(S \ {i})

Restored == SumRestored(PartNumbers)

\* upPart, first half: the Authorization is obtained from the signing endpoint
\* and the PUT is sent; the object store answers.  A part it stores gets a new
\* ETag.
UpPartSend ==
  /\ pc = "put"
  /\ \E authOk \in BOOLEAN :
       IF ~authOk THEN FailTransfer("UPLOAD_PART_ERROR", srvParts)
       ELSE \E kind \in RespKinds, stores \in BOOLEAN :
              /\ kind \in {"ok200", "noEtag200"} => stores
              /\ kind \in {"status4xx", "409etag", "409noEtag"} => ~stores
              /\ kind = "409etag" => srvParts[partNumber] # NoEtag
              /\ (stores /\ srvParts[partNumber] # NoEtag) => Restored < MaxRestore
              /\ LET stored == IF stores
                               THEN [sess |-> pre.id, n |-> srvParts[partNumber].n + 1,
                                     ver |-> file.ver, q |-> TRUE]
                               ELSE srvParts[partNumber]
                 IN  /\ srvParts' = [srvParts EXCEPT ![partNumber] = stored]
                     /\ resp' = [kind |-> kind,
                                 etag |-> IF kind \in {"ok200", "409etag"} THEN stored
                                          ELSE NoEtag]
              /\ calls' = Append(calls, [op |-> "put", part |-> partNumber, kind |-> kind,
                                         headers |-> BuildHeaders])
              /\ pc' = "putResp"
              /\ UNCHANGED <<other, file, disk, filePath, destPath, fileSize, pre, useSavedState,
                             savedState, etags, startPartNumber, partNumber, offset,
                             chunkLen, commitReq, result, progress, mismatch, lastOk,
                             lastSave, resumeK>>

\* upPart, second half, and the failure exit of the loop.
UpPartRecv ==
  /\ pc = "putResp"
  /\ LET r == upPartResult(resp)
     IN  IF r.ok
         THEN /\ etags' = Append(etags, r.etag)
              /\ lastOk' = [lastOk EXCEPT ![partNumber] = r.etag]
              /\ resp' = NoResp
              /\ pc' = "save"
              /\ UNCHANGED <<other, env, filePath, destPath, fileSize, pre, useSavedState,
                             savedState, startPartNumber, partNumber, offset, chunkLen,
                             commitReq, result, calls, progress, mismatch, lastSave,
                             resumeK>>
         ELSE FailTransfer("UPLOAD_PART_ERROR", srvParts)

\* Mutant: the part number is not advanced.
NextPartSame(n) == n

\* partNumber++ at the end of the loop body.
NextPart(n) == n + 1

\* After a successful part: the record is written, progress is reported.
SavePart ==
  /\ pc = "save"
  /\ IF NilMapWrite(savedState, useSavedState) THEN Panic
     ELSE /\ LET etag == etags[Len(etags)]
                 st == StateOnSuccess(savedState, useSavedState, Fresh, partNumber, etag)
             IN  /\ savedState' = st
                 /\ disk' = [disk EXCEPT ![StatePath] = st]
          /\ lastSave' = IF useSavedState THEN NoSave
                         ELSE [k |-> partNumber, fp |-> filePath, dp |-> destPath]
          /\ progress' = Append(progress, Percent(partNumber, pre.PartSize, fileSize))
          /\ partNumber' = NextPart(partNumber)
          /\ pc' = "read"
          /\ UNCHANGED <<other, file, srvParts, filePath, destPath, fileSize, pre,
                         useSavedState, etags, startPartNumber, offset, chunkLen, resp,
                         commitReq, result, calls, mismatch, lastOk, resumeK>>

\* upCommit: the signed request is built from etags and sent.
CommitSend ==
  /\ pc = "commit"
  /\ \E authOk \in BOOLEAN :
       IF authOk
       THEN /\ commitReq' = upCommitParts(etags)
            /\ Call("commit", 0, "sent")
            /\ pc' = "commitResp"
            /\ UNCHANGED <<other, env, filePath, destPath, fileSize, pre, useSavedState,
                           savedState, etags, startPartNumber, partNumber, offset, chunkLen,
                           resp, result, progress, mismatch, lastOk, lastSave, resumeK>>
       ELSE Return(FALSE, "COMMIT_UPLOAD_ERROR", disk)

\* Mutant: the answer to the commit is not looked at.
CommitRecvIgnored ==
  /\ pc = "commitResp"
  /\ pc' = "finish"
  /\ UNCHANGED <<other, env, filePath, destPath, fileSize, pre, useSavedState,
                 savedState, etags, startPartNumber, partNumber, offset, chunkLen,
                 resp, commitReq, result, hist>>

\* upCommit: the answer of the object store.
CommitRecv ==
  /\ pc = "commitResp"
  /\ \E ok \in BOOLEAN :
       IF ok
       THEN /\ Call("commit", 0, "ok")
            /\ pc' = "finish"
            /\ UNCHANGED <<other, env, filePath, destPath, fileSize, pre, useSavedState,
                           savedState, etags, startPartNumber, partNumber, offset, chunkLen,
                           resp, commitReq, result, progress, mismatch, lastOk, lastSave, resumeK>>
       ELSE Return(FALSE, "COMMIT_UPLOAD_ERROR", disk)

\* upFinish after the commit; on success the record is deleted.
UpFinish ==
  /\ pc = "finish"
  /\ \E ok \in BOOLEAN :
       IF ok
       THEN Return(TRUE, "OK", [disk EXCEPT ![StatePath] = NoState])
       ELSE Return(FALSE, "FINISH_UPLOAD_ERROR", disk)

\* ------------------------------------------------------------ environment
\* The process is terminated: the locals are lost, the disk and the remote side stay.
Terminate ==
  /\ pc # "idle"
  /\ result' = NoResult
  /\ Leave(disk, srvParts)
  /\ UNCHANGED lastSave

\* Between invocations the content of the local file is replaced.
ModifyFile ==
  /\ pc = "idle"
  /\ file.ver < MaxVer
  /\ \E sz \in 0..MaxFileSize : file' = [size |-> sz, ver |-> file.ver + 1]
  /\ lastSave' = NoSave
  /\ UNCHANGED <<other, disk, srvParts, locals, result, calls, progress, mismatch,
                 lastOk, resumeK>>

Next ==
  \/ Open \/ UpPre \/ UpHash \/ UpPreAgain \/ UpHashAgain
  \/ InstantFinish \/ InstantDone \/ ReadChunk \/ UpPartSend \/ UpPartRecv \/ SavePart
  \/ CommitSend \/ CommitRecv \/ UpFinish
  \/ Terminate \/ ModifyFile

Spec == Init /\ [][Next]_vars

\* ------------------------------------------------------------ a state file found on disk
\* At the first invocation a state file of the key is on disk that this
\* program did not write in this form: it names the key's paths and the size
\* of the file, the other fields hold any values.
StoredUploadIDs == {0, 1}

StoredPartSizes == {-1, 0, 1}

StoredParts(id) ==
  LET e == [sess |-> id, n |-> 1, ver |-> 1, q |-> TRUE]
  IN  { [form |-> "ok", parts |-> NoParts],
        [form |-> "ok", parts |-> [i \in {0} |-> e]],
        [form |-> "ok", parts |-> [i \in {1} |-> e]],
        [form |-> "nilmap", parts |-> NoParts],
        [form |-> "garbage", parts |-> NoParts] }

InitStored ==
  /\ IdleOther
  /\ file \in [size : 0..MaxFileSize, ver : {1}]
  /\ \E u \in Uploads, id \in StoredUploadIDs, ps \in StoredPartSizes :
       \E c \in StoredParts(id) :
         disk = [p \in StatePaths |->
                   IF p = getUploadStatePath(u[1], u[2])
                   THEN [exists |-> TRUE, form |-> c.form, FilePath |-> u[1],
                         DestPath |-> u[2], FileSize |-> file.size, UploadID |-> id,
                         PartSize |-> ps, UploadedParts |-> c.parts]
                   ELSE NoState]
  /\ srvParts = NoStored
  /\ pc = "idle" /\ filePath = "" /\ destPath = "" /\ fileSize = 0
  /\ pre = NoPre /\ useSavedState = FALSE /\ savedState = NoState
  /\ etags = <<>> /\ startPartNumber = 1 /\ partNumber = 1 /\ offset = 0 /\ chunkLen = 0
  /\ resp = NoResp /\ commitReq = <<>>
  /\ result = NoResult
  /\ calls = <<>> /\ progress = <<>> /\ mismatch = FALSE
  /\ lastOk = NoStored
  /\ lastSave = NoSave /\ resumeK = 0

SpecStored == InitStored /\ [][Next]_vars

\* ------------------------------------------------------------ the drive
\* A path is the sequence of its components; "/" is the empty sequence.
MaxDepth == 3

MaxPad == 3

\* pageSize of listByFid (50 in file.go), scaled down with the listings.
PageSize == 2

CompNames == <<"new", "deep", "dir", "sub", "leaf">>

Chain == SubSeq(CompNames, 1, MaxDepth)

\* currentPath of UploadFile: "/" + part, then currentPath + "/" + part.
RECURSIVE PathStr(_)
PathStr(p) ==
  IF p = <<>> THEN "/"
  ELSE IF Len(p) = 1 THEN "/" \o p[1]
  ELSE PathStr(SubSeq(p, 1, Len(p) - 1)) \o "/" \o p[Len(p)]

\* normalizeRootDir of a path string in normal form (PathStr builds no other):
\* "", "/" and "." name the root "0", anything else is kept.
normalizeRootDirStr(path) == IF path \in {"", "/", "."} THEN "0" ELSE path

\* The service's answer to one request of the file list: page `page` of the
\* directory, PageSize entries a page, with the total when it declares one.
ServerPage(r, pdirFid, page) ==
  IF pdirFid \notin DOMAIN r \/ ~r[pdirFid].ok
  THEN [ok |-> FALSE, list |-> <<>>, total |-> -1]
  ELSE LET all == r[pdirFid].entries
       IN  [ok |-> TRUE,
            list |-> SubSeq(all, (page - 1) * PageSize + 1, Min(page * PageSize, Len(all))),
            total |-> IF r[pdirFid].total THEN Len(all) ELSE -1]

\* Mutant: the first page is taken for the whole listing.
HasMoreNever(n, count, total) == FALSE

\* listByFid: hasMore after a page of n > 0 entries, count entries so far.
HasMore(n, count, total) ==
  IF n < PageSize THEN FALSE
  ELSE IF total >= 0 THEN count < total
  ELSE n = PageSize

\* listByFid: the loop over the pages, from page `page` on.
RECURSIVE listPages(_, _, _, _)
listPages(r, pdirFid, page, allFileList) ==
  LET a == ServerPage(r, pdirFid, page)
      all == allFileList \o a.list
  IN  IF ~a.ok
      THEN [Success |-> FALSE, Code |-> "LIST_FAILED", list |-> <<>>, pages |-> page]
      ELSE IF Len(a.list) = 0
      THEN [Success |-> TRUE, Code |-> "OK", list |-> allFileList, pages |-> page]
      ELSE IF HasMore(Len(a.list), Len(all), a.total)
      THEN listPages(r, pdirFid, page + 1, all)
      ELSE [Success |-> TRUE, Code |-> "OK", list |-> all, pages |-> page]

listByFid(r, pdirFid) == listPages(r, pdirFid, 1, <<>>)

\* Mutant: the last entry of the name is taken.
FirstMatchLast(list, name) ==
  LET s == { i \in 1..Len(list) : list[i].name = name }
  IN  IF s = {} THEN 0 ELSE CHOOSE i \in s : \A j \in s : j <= i

\* GetFileInfo: the scan of the listing, the index of the entry returned (0: none).
FirstMatch(list, name) ==
  LET s == { i \in 1..Len(list) : list[i].name = name }
  IN  IF s = {} THEN 0 ELSE CHOOSE i \in s : \A j \in s : i <= j

\* GetFileInfo: the answer, with the fids listed on the way (in order) and
\* the listing of the parent.
RECURSIVE GetFileInfo(_, _)
GetFileInfo(r, remotePath) ==
  LET Root == [Success |-> TRUE, Code |-> "OK", fid |-> "0", listed |-> <<>>, list |-> <<>>]
      Failed(code, listed, list) ==
        [Success |-> FALSE, Code |-> code, fid |-> "", listed |-> listed, list |-> list]
  IN  IF remotePath = <<>> THEN Root
      ELSE
        LET fileName   == remotePath[Len(remotePath)]
            parentPath == SubSeq(remotePath, 1, Len(remotePath) - 1)
            parentInfo == IF parentPath = <<>> THEN Root ELSE GetFileInfo(r, parentPath)
        IN  IF ~parentInfo.Success
            THEN Failed(parentInfo.Code, parentInfo.listed, <<>>)
            ELSE IF parentInfo.fid = ""
            THEN Failed("INVALID_PARENT_DIRECTORY_INFO", parentInfo.listed, <<>>)
            ELSE
              LET listResp == listByFid(r, parentInfo.fid)
                  listed   == Append(parentInfo.listed, parentInfo.fid)
                  i        == FirstMatch(listResp.list, fileName)
              IN  IF ~listResp.Success THEN Failed(listResp.Code, listed, <<>>)
                  ELSE IF i > 0
                  THEN [Success |-> TRUE, Code |-> "OK", fid |-> listResp.list[i].fid,
                        listed |-> listed, list |-> listResp.list]
                  ELSE Failed("FILE_NOT_FOUND", listed, listResp.list)

\* The drive at the start: the first `e` directories of Chain exist, every
\* listing starts with `pad` other entries, an entry of the same name as the
\* sub-directory may stand before or after it, listings declare their total
\* or not, and the listing of at most one directory fails.
DirFid(i) == IF i = 0 THEN "0" ELSE "d" \o ToString(i)

Listing(i, e, pad, dup) ==
  [j \in 1..pad |-> [name |-> "x", fid |-> "x" \o ToString(i)]]
  \o (IF i < e /\ dup = "before" THEN <<[name |-> Chain[i + 1], fid |-> "dup"]>> ELSE <<>>)
  \o (IF i < e THEN <<[name |-> Chain[i + 1], fid |-> DirFid(i + 1)]>> ELSE <<>>)
  \o (IF i < e /\ dup = "after" THEN <<[name |-> Chain[i + 1], fid |-> "dup"]>> ELSE <<>>)

Drives ==
  { [f \in { DirFid(i) : i \in 0..e } |->
       LET i == CHOOSE k \in 0..e : DirFid(k) = f
       IN  [entries |-> Listing(i, e, pad, dup), total |-> tot, ok |-> (i # bad)]] :
    e \in 0..MaxDepth, pad \in 0..MaxPad, dup \in {"none", "before", "after"},
    tot \in BOOLEAN, bad \in -1..MaxDepth }

Queries ==
  { SubSeq(Chain, 1, n) : n \in 0..MaxDepth }
  \cup { Append(SubSeq(Chain, 1, n), "x") : n \in 0..(MaxDepth - 1) }

InitDirs ==
  /\ file \in [size : {0}, ver : {1}]
  /\ disk = [p \in StatePaths |-> NoState]
  /\ srvParts = NoStored
  /\ pc = "idle" /\ filePath = "" /\ destPath = "" /\ fileSize = 0
  /\ pre = NoPre /\ useSavedState = FALSE /\ savedState = NoState
  /\ etags = <<>> /\ startPartNumber = 1 /\ partNumber = 1 /\ offset = 0 /\ chunkLen = 0
  /\ resp = NoResp /\ commitReq = <<>>
  /\ result = NoResult
  /\ calls = <<>> /\ progress = <<>> /\ mismatch = FALSE
  /\ lastOk = NoStored
  /\ lastSave = NoSave /\ resumeK = 0
  /\ IdleCodec /\ IdleStore /\ IdleAuth /\ IdlePath /\ IdleQueue /\ IdleList
  /\ remote \in Drives
  /\ query = <<>> /\ info = NoInfo
  /\ dpc = "idle" /\ destDirPath = <<>> /\ idx = 0
  /\ lastCreatedFid = "" /\ destDirFid = "" /\ dresult = "" /\ reqs = <<>>

\* ------------------------------------------------------------ GetFileInfo on its own
GetInfo ==
  /\ dpc = "idle"
  /\ \E q \in Queries : query' = q /\ info' = GetFileInfo(remote, q)
  /\ UNCHANGED <<exceptDirs, remote, dpc, destDirPath, idx, lastCreatedFid, destDirFid,
                 dresult, reqs>>

\* ------------------------------------------------------------ UploadFile: the destination directory
\* The directory the service creates on a folder-creation request: under the
\* directory of fid pdir.  A pdir_fid that is no fid of the drive is refused,
\* or taken as the path it spells.
RECURSIVE FidOfPath(_, _)
FidOfPath(r, p) ==
  IF p = <<>> THEN "0"
  ELSE LET up == FidOfPath(r, SubSeq(p, 1, Len(p) - 1))
           i  == IF up \in DOMAIN r THEN FirstMatch(r[up].entries, p[Len(p)]) ELSE 0
       IN  IF i = 0 THEN "" ELSE r[up].entries[i].fid

ParentMeant(r, pdir) ==
  IF pdir \in DOMAIN r THEN pdir
  ELSE LET ps == { n \in 1..MaxDepth : PathStr(SubSeq(Chain, 1, n)) = pdir
                                        /\ FidOfPath(r, SubSeq(Chain, 1, n)) \in DOMAIN r }
       IN  IF ps = {} THEN "" ELSE FidOfPath(r, SubSeq(Chain, 1, CHOOSE n \in ps : TRUE))

NewFid(r) == "n" \o ToString(Cardinality(DOMAIN r))

Created(r, parent, name) ==
  [f \in DOMAIN r \cup {NewFid(r)} |->
     IF f = NewFid(r) THEN [entries |-> <<>>, total |-> r[parent].total, ok |-> TRUE]
     ELSE IF f = parent
     THEN [r[f] EXCEPT !.entries = Append(@, [name |-> name, fid |-> NewFid(r)])]
     ELSE r[f]]

DestDirs == { SubSeq(Chain, 1, n) : n \in 0..MaxDepth }

\* The stage returns `code` to the caller of UploadFile.
DirReturn(code) ==
  /\ dresult' = code /\ dpc' = "idle" /\ idx' = 0

\* UploadFile up to the decision to create: the directory part of destPath is
\* looked up.
DirStart ==
  /\ dpc = "idle"
  /\ \E d \in DestDirs :
       LET destDirInfo == GetFileInfo(remote, d)
           needCreate  == ~destDirInfo.Success /\ destDirInfo.Code = "FILE_NOT_FOUND"
       IN  /\ destDirPath' = d /\ reqs' = <<>> /\ lastCreatedFid' = ""
           /\ query' = <<>> /\ info' = NoInfo
           /\ IF d = <<>>
              THEN destDirFid' = "0" /\ dpc' = "pre" /\ dresult' = "" /\ idx' = 0
              ELSE IF needCreate
              THEN destDirFid' = "" /\ dpc' = "loop" /\ dresult' = "" /\ idx' = 1
              ELSE IF ~destDirInfo.Success
              THEN destDirFid' = "" /\ DirReturn(destDirInfo.Code)
              ELSE IF destDirInfo.fid = ""
              THEN destDirFid' = "" /\ DirReturn("INVALID_DIRECTORY_INFO")
              ELSE destDirFid' = destDirInfo.fid /\ dpc' = "pre" /\ dresult' = "" /\ idx' = 0
  /\ UNCHANGED <<exceptDirs, remote>>

\* One round of the loop over the components: currentPath is looked up and,
\* when it is not found, CreateFolder(part, parentPathForCreate) is called.
\* The lookup may fail for the request's sake (answered: FALSE), and the
\* answer to a creation may come without a fid ("nofid").
DirLoop ==
  /\ dpc = "loop" /\ idx <= Len(destDirPath)
  /\ \E answered \in BOOLEAN :
     LET currentPath    == SubSeq(destDirPath, 1, idx)
         part           == destDirPath[idx]
         checkInfo      == IF answered THEN GetFileInfo(remote, currentPath)
                           ELSE [Success |-> FALSE, Code |-> "LIST_FAILED"]
         needCreatePath == ~checkInfo.Success /\ checkInfo.Code = "FILE_NOT_FOUND"
         parentPathForCreate == PathStr(SubSeq(destDirPath, 1, idx - 1))
         pdirFid        == normalizeRootDirStr(parentPathForCreate)
         parent         == ParentMeant(remote, pdirFid)
     IN  IF needCreatePath
         THEN /\ \E created \in (IF parent = "" THEN {"no"} ELSE {"no", "fid", "nofid"}) :
                   /\ reqs' = Append(reqs, [op |-> "create", pdir_fid |-> pdirFid,
                                            file_name |-> part,
                                            fid |-> IF created = "fid" THEN NewFid(remote)
                                                    ELSE ""])
                   /\ IF created # "no"
                      THEN /\ remote' = Created(remote, parent, part)
                           /\ lastCreatedFid' = IF created = "fid" THEN NewFid(remote)
                                                ELSE lastCreatedFid
                           /\ idx' = idx + 1 /\ query' = <<>> /\ info' = NoInfo
                           /\ UNCHANGED <<dpc, dresult>>
                      ELSE /\ DirReturn("CREATE_DIRECTORY_ERROR")
                           /\ UNCHANGED <<remote, lastCreatedFid, query, info>>
         ELSE /\ idx' = idx + 1
              /\ UNCHANGED <<remote, lastCreatedFid, query, info, dpc, dresult, reqs>>
  /\ UNCHANGED <<exceptDirs, destDirPath, destDirFid>>

\* After the loop: the fid of the folder created last is the parent, or the
\* directory is looked up again.
DirDone ==
  /\ dpc = "loop" /\ idx > Len(destDirPath)
  /\ LET destDirInfo == IF lastCreatedFid # ""
                        THEN [Success |-> TRUE, Code |-> "OK", fid |-> lastCreatedFid]
                        ELSE GetFileInfo(remote, destDirPath)
     IN  IF ~destDirInfo.Success
         THEN DirReturn(destDirInfo.Code) /\ UNCHANGED destDirFid
         ELSE IF destDirInfo.fid = ""
         THEN DirReturn("INVALID_DIRECTORY_INFO") /\ UNCHANGED destDirFid
         ELSE destDirFid' = destDirInfo.fid /\ dpc' = "pre" /\ UNCHANGED <<dresult, idx>>
  /\ UNCHANGED <<exceptDirs, remote, query, info, destDirPath, lastCreatedFid, reqs>>

\* upPre is called with the fid found as parentID.
DirPre ==
  /\ dpc = "pre"
  /\ reqs' = Append(reqs, [op |-> "pre", pdir_fid |-> destDirFid, file_name |-> "file.bin",
                            fid |-> ""])
  /\ dpc' = "idle" /\ idx' = 0
  /\ UNCHANGED <<exceptDirs, remote, query, info, destDirPath, lastCreatedFid,
                 destDirFid, dresult>>

NextDirs == GetInfo \/ DirStart \/ DirLoop \/ DirDone \/ DirPre

SpecDirs == InitDirs /\ [][NextDirs]_vars

\* ------------------------------------------------------------ the hash context
\* The SHA-1 accumulator of crypto/sha1 (chaining words h, pending bytes x of
\* the block not yet full, byte count len), scaled: blocks of BlockSize bytes
\* (64 in SHA-1), words below WordMod, counter halves below HalfMod, and a
\* block function that mixes every byte of the block into the five words.
BlockSize == 2

MaxQ == 2

Bytes == {0, 1}

WordMod == 65536

HalfMod == 65536

InitWords == <<8961, 43913, 56574, 21622, 57840>>

RECURSIVE SeqsUpTo(_)
SeqsUpTo(n) ==
  IF n = 0 THEN { <<>> }
  ELSE SeqsUpTo(n - 1)
       \cup { Append(q, b) : q \in { r \in SeqsUpTo(n - 1) : Len(r) = n - 1 }, b \in Bytes }

Mix(h, b) == <<h[2], h[3], h[4], h[5], (h[1] * 33 + h[3] + b + 1) % WordMod>>

RECURSIVE block(_, _)
block(h, bs) == IF bs = <<>> THEN h ELSE block(Mix(h, Head(bs)), Tail(bs))

New == [h |-> InitWords, x |-> <<>>, len |-> 0]

\* Write: the bytes fill the pending block; a full block goes into the words.
RECURSIVE Write(_, _)
Write(d, p) ==
  IF p = <<>> THEN d
  ELSE LET x == Append(d.x, Head(p))
       IN  Write(IF Len(x) = BlockSize
                 THEN [h |-> block(d.h, x), x |-> <<>>, len |-> d.len + 1]
                 ELSE [h |-> d.h, x |-> x, len |-> d.len + 1],
                 Tail(p))

\* Sum: the padding (a marker byte, zeros, the byte count in the last place of
\* a block) is written and the words are the digest.
Padding(len) ==
  <<2>> \o [i \in 1..((2 * BlockSize - 2 - (len % BlockSize)) % BlockSize) |-> 0]
        \o <<len + 3>>

Sum(d) == Write(d, Padding(d.len)).h

\* Mutant: the bytes of the block not yet full are left out of the HashState.
captureNoData(d, bytesHashedSoFar) ==
  [h0 |-> d.h[1], h1 |-> d.h[2], h2 |-> d.h[3], h3 |-> d.h[4], h4 |-> d.h[5],
   Nl |-> bytesHashedSoFar % HalfMod, Nh |-> bytesHashedSoFar \div HalfMod,
   data |-> <<>>, num |-> 0]

\* capture: the five chaining words, the byte counter in its low and high
\* halves, and the pending bytes of the block with their number.
capture(d, bytesHashedSoFar) ==
  [h0 |-> d.h[1], h1 |-> d.h[2], h2 |-> d.h[3], h3 |-> d.h[4], h4 |-> d.h[5],
   Nl |-> bytesHashedSoFar % HalfMod, Nh |-> bytesHashedSoFar \div HalfMod,
   data |-> d.x, num |-> Len(d.x)]

\* restore: an accumulator with the words, counter and pending bytes of s.
restore(s) ==
  [h |-> <<s.h0, s.h1, s.h2, s.h3, s.h4>>,
   x |-> SubSeq(s.data, 1, s.num),
   len |-> s.Nh * HalfMod + s.Nl]

\* The prefixes hashed before the capture: none, one byte, one full block,
\* and two blocks with one byte more; any bytes follow.
PrefixLens == {0, 1, BlockSize, 2 * BlockSize + 1}

InitHash ==
  /\ file \in [size : {0}, ver : {1}]
  /\ disk = [p \in StatePaths |-> NoState]
  /\ srvParts = NoStored
  /\ pc = "idle" /\ filePath = "" /\ destPath = "" /\ fileSize = 0
  /\ pre = NoPre /\ useSavedState = FALSE /\ savedState = NoState
  /\ etags = <<>> /\ startPartNumber = 1 /\ partNumber = 1 /\ offset = 0 /\ chunkLen = 0
  /\ resp = NoResp /\ commitReq = <<>>
  /\ result = NoResult
  /\ calls = <<>> /\ progress = <<>> /\ mismatch = FALSE
  /\ lastOk = NoStored
  /\ lastSave = NoSave /\ resumeK = 0
  /\ IdleDirs /\ IdleStore /\ IdleAuth /\ IdlePath /\ IdleQueue /\ IdleList
  /\ hpc = "new"
  /\ hP \in { p \in SeqsUpTo(2 * BlockSize + 1) : Len(p) \in PrefixLens }
  /\ hQ \in SeqsUpTo(MaxQ)
  /\ captured = NoHashState /\ sumResumed = <<>> /\ sumOnePass = <<>>

\* hP is hashed and the state of the accumulator is captured.
HashCapture ==
  /\ hpc = "new"
  /\ captured' = capture(Write(New, hP), Len(hP))
  /\ hpc' = "captured"
  /\ UNCHANGED <<exceptCodec, hP, hQ, sumResumed, sumOnePass>>

\* An accumulator restored from the HashState is fed hQ.
HashResume ==
  /\ hpc = "captured"
  /\ sumResumed' = Sum(Write(restore(captured), hQ))
  /\ hpc' = "resumed"
  /\ UNCHANGED <<exceptCodec, hP, hQ, captured, sumOnePass>>

\* hP followed by hQ is hashed in one pass.
HashOnePass ==
  /\ hpc = "resumed"
  /\ sumOnePass' = Sum(Write(New, hP \o hQ))
  /\ hpc' = "done"
  /\ UNCHANGED <<exceptCodec, hP, hQ, captured, sumResumed>>

NextHash == HashCapture \/ HashResume \/ HashOnePass

SpecHash == InitHash /\ [][NextHash]_vars

\* ------------------------------------------------------------ the state file
\* An UploadState as encoding/json writes and reads it.  A string is the
\* sequence of its characters ("xFF": a byte that is no UTF-8); a
\* json.RawMessage is NilRaw or a JSON text [lit, ws], ws the way its
\* white space is laid out; a time is a wall-clock instant, with the
\* monotonic reading time.Now() adds.
NilRaw == [lit |-> "nil", ws |-> ""]

NilMap == [nil |-> TRUE, m |-> <<>>]

NilCtx == [nil |-> TRUE]

Strings == { <<"a">>, <<"a", "xFF">> }

RawMessages ==
  { NilRaw, [lit |-> "string", ws |-> ""],
    [lit |-> "object", ws |-> "compact"], [lit |-> "object", ws |-> "spaced"] }

PartMaps == { NilMap, [nil |-> FALSE, m |-> <<>>], [nil |-> FALSE, m |-> <<"e1">>] }

HashCtxs ==
  { NilCtx,
    [nil |-> FALSE, HashType |-> "", H0 |-> "", Nl |-> "", Data |-> "", Num |-> ""],
    [nil |-> FALSE, HashType |-> "sha1", H0 |-> "1125272656", Nl |-> "436207616",
     Data |-> "", Num |-> "0"] }

Times == { [wall |-> 0, mono |-> FALSE], [wall |-> 1, mono |-> TRUE] }

Now == [wall |-> 2, mono |-> TRUE]

Sessions ==
  [FilePath : Strings, DestPath : { <<"/", "b">> }, FileSize : {0, 1},
   UploadID : { <<"u">> }, TaskID : { <<"t">> }, Bucket : { <<"k">> },
   ObjKey : { <<"o">> }, UploadURL : { <<"h">> }, PartSize : {1},
   UploadedParts : PartMaps, MimeType : { <<"m">> },
   AuthInfo : { NilRaw, [lit |-> "string", ws |-> ""] }, Callback : RawMessages,
   HashCtx : HashCtxs, CreatedAt : Times]

\* encoding/json, a string: bytes that are no UTF-8 are written as U+FFFD.
encodeString(str) == [i \in 1..Len(str) |-> IF str[i] = "xFF" THEN "uFFFD" ELSE str[i]]

\* encoding/json, a json.RawMessage under MarshalIndent: nil is written as
\* null; any other text is compacted and then indented with the document.
encodeRaw(raw) ==
  IF raw = NilRaw THEN [lit |-> "null", ws |-> ""]
  ELSE IF raw.lit = "object" THEN [lit |-> "object", ws |-> "indented"]
  ELSE raw

\* encoding/json, a map[int]string: nil is written as null, the keys as
\* decimal strings.
encodeParts(parts) ==
  IF parts.nil THEN [lit |-> "null", keys |-> <<>>, vals |-> <<>>]
  ELSE [lit |-> "object", keys |-> [i \in 1..Len(parts.m) |-> ToString(i)],
        vals |-> parts.m]

\* time.Time.MarshalJSON: the instant in RFC 3339 with nanoseconds.
encodeTime(t) == t.wall

\* saveUploadState: CreatedAt is set, then json.MarshalIndent; hash_ctx is
\* left out when HashCtx is nil (omitempty).
Stamped(state) == [state EXCEPT !.CreatedAt = Now]

Marshal(state) ==
  [written |-> TRUE,
   file_path |-> encodeString(state.FilePath), dest_path |-> encodeString(state.DestPath),
   file_size |-> state.FileSize,
   upload_id |-> encodeString(state.UploadID), task_id |-> encodeString(state.TaskID),
   bucket |-> encodeString(state.Bucket), obj_key |-> encodeString(state.ObjKey),
   upload_url |-> encodeString(state.UploadURL), part_size |-> state.PartSize,
   uploaded_parts |-> encodeParts(state.UploadedParts),
   mime_type |-> encodeString(state.MimeType),
   auth_info |-> encodeRaw(state.AuthInfo), callback |-> encodeRaw(state.Callback),
   has_hash_ctx |-> ~state.HashCtx.nil, hash_ctx |-> state.HashCtx,
   created_at |-> encodeTime(state.CreatedAt)]

\* json.Unmarshal into an UploadState: null leaves a map nil and is kept as
\* the text of a json.RawMessage; a key that is absent leaves the pointer nil;
\* the time read has no monotonic reading.
decodeParts(v) ==
  IF v.lit = "null" THEN NilMap ELSE [nil |-> FALSE, m |-> v.vals]

Unmarshal(doc) ==
  [FilePath |-> doc.file_path, DestPath |-> doc.dest_path, FileSize |-> doc.file_size,
   UploadID |-> doc.upload_id, TaskID |-> doc.task_id, Bucket |-> doc.bucket,
   ObjKey |-> doc.obj_key, UploadURL |-> doc.upload_url, PartSize |-> doc.part_size,
   UploadedParts |-> decodeParts(doc.uploaded_parts), MimeType |-> doc.mime_type,
   AuthInfo |-> doc.auth_info, Callback |-> doc.callback,
   HashCtx |-> IF doc.has_hash_ctx THEN doc.hash_ctx ELSE NilCtx,
   CreatedAt |-> [wall |-> doc.created_at, mono |-> FALSE]]

InitRecord ==
  /\ IdleUpload /\ IdleDirs /\ IdleCodec /\ IdleAuth /\ IdlePath /\ IdleQueue /\ IdleList
  /\ spc = "new" /\ sess \in Sessions
  /\ stateFile = NoFile /\ loadedState = NoSession

\* saveUploadState(statePath, state)
SaveState ==
  /\ spc = "new"
  /\ sess' = Stamped(sess)
  /\ stateFile' = Marshal(Stamped(sess))
  /\ spc' = "saved"
  /\ UNCHANGED <<exceptStore, loadedState>>

\* loadUploadState(statePath)
LoadState ==
  /\ spc = "saved"
  /\ loadedState' = Unmarshal(stateFile)
  /\ spc' = "loaded"
  /\ UNCHANGED <<exceptStore, sess, stateFile>>

NextRecord == SaveState \/ LoadState

SpecRecord == InitRecord /\ [][NextRecord]_vars

\* ------------------------------------------------------------ the credentials
\* Goroutines make requests on one QuarkClient.  A request through
\* makeRequest passes checkAuth and is then built with qc.cookies and sent;
\* upPart obtains its Authorization by such a request and sends the PUT with
\* qc.HttpClient.Do.  The service answers an identity call as it likes.
MaxTokens == 3

\* checkAuth: the cache is valid and younger than authCheckTimeout.
\* Mutant: the age of the cache is not looked at.
CacheFreshAnyAge(v, a) == v

CacheFresh(v, a) == v /\ a < AuthCheckTimeout

\* checkAuth: the same check again, under the exclusive lock.
\* Mutant: no second check.
RecheckSkipped(v, a) == FALSE

Recheck(v, a) == CacheFresh(v, a)

\* Mutant: the search starts at index 0.
nextIdxFromZero(c, i, n) == i

\* switchToNextToken: the i-th index tried.
nextIdx(c, i, n) == (c + 1 + i) % n

\* switchToNextToken: the index made current, or -1 when none is left.
NextToken(c, f, n) ==
  LET is == { i \in 0..(n - 1) : nextIdx(c, i, n) \notin f }
  IN  IF is = {} THEN -1 ELSE nextIdx(c, CHOOSE i \in is : \A j \in is : i <= j, n)

\* checkAuth: len(qc.accessTokens) > 1.
MayFailover(n) == n > 1

Sent(kind, g) ==
  lastReq' = [kind |-> kind, cred |-> cur, g |-> g, marked |-> cur \in failed,
              okAge |-> okAge]

InitAuth ==
  /\ IdleUpload /\ IdleDirs /\ IdleCodec /\ IdleStore /\ IdlePath /\ IdleQueue /\ IdleList
  /\ ntok \in 1..MaxTokens /\ cur \in 0..(ntok - 1)
  /\ failed = {} /\ valid = FALSE /\ age = AuthCheckTimeout /\ writer = 0
  /\ apc = [g \in Goroutines |-> "idle"] /\ aop = [g \in Goroutines |-> ""]
  /\ nswitch = [g \in Goroutines |-> 0] /\ how = [g \in Goroutines |-> ""]
  /\ okAge = AuthCheckTimeout /\ vcount = 0 /\ lastReq = NoReq

\* makeRequest is entered (skipAuth not set), for an API request or for the
\* signing request of upPart.
AuthStart ==
  \E g \in Goroutines, op \in {"api", "sign"} :
    /\ apc[g] = "idle"
    /\ apc' = [apc EXCEPT ![g] = "rlock"] /\ aop' = [aop EXCEPT ![g] = op]
    /\ nswitch' = [nswitch EXCEPT ![g] = 0] /\ how' = [how EXCEPT ![g] = ""]
    /\ UNCHANGED <<exceptAuth, ntok, cur, failed, valid, age, writer, okAge, vcount, lastReq>>

\* checkAuth, the check under the read lock.
AuthRead ==
  \E g \in Goroutines :
    /\ apc[g] = "rlock" /\ writer = 0
    /\ IF CacheFresh(valid, age)
       THEN apc' = [apc EXCEPT ![g] = "build"] /\ how' = [how EXCEPT ![g] = "cached"]
       ELSE apc' = [apc EXCEPT ![g] = "lock"] /\ UNCHANGED how
    /\ UNCHANGED <<exceptAuth, ntok, cur, failed, valid, age, writer, aop, nswitch, okAge,
                   vcount, lastReq>>

\* checkAuth, the exclusive lock and the second check.
AuthLock ==
  \E g \in Goroutines :
    /\ apc[g] = "lock" /\ writer = 0
    /\ IF Recheck(valid, age)
       THEN /\ apc' = [apc EXCEPT ![g] = "build"] /\ how' = [how EXCEPT ![g] = "rechecked"]
            /\ UNCHANGED writer
       ELSE /\ apc' = [apc EXCEPT ![g] = "validate"] /\ writer' = g /\ UNCHANGED how
    /\ UNCHANGED <<exceptAuth, ntok, cur, failed, valid, age, aop, nswitch, okAge, vcount,
                   lastReq>>

\* Mutant: GetUserInfo makes its request through checkAuth.
skipAuthNot == FALSE

\* GetUserInfo: makeRequest(..., true), the request does not pass checkAuth.
skipAuth == TRUE

\* checkAuth: GetUserInfo with the current token, and what follows its answer.
\* A GetUserInfo that passed checkAuth would ask for the read lock while its
\* caller holds the exclusive one.
AuthValidate ==
  \E g \in Goroutines, ok \in BOOLEAN :
    /\ apc[g] = "validate"
    /\ Sent("identity", g)
    /\ IF ~skipAuth
       THEN /\ apc' = [apc EXCEPT ![g] = "rlock"]
            /\ UNCHANGED <<valid, age, okAge, vcount, writer, how>>
       ELSE IF ok
       THEN /\ valid' = TRUE /\ age' = 0 /\ okAge' = 0 /\ vcount' = vcount + 1
            /\ writer' = 0
            /\ apc' = [apc EXCEPT ![g] = "build"] /\ how' = [how EXCEPT ![g] = "validated"]
       ELSE /\ valid' = FALSE /\ vcount' = 0
            /\ IF MayFailover(ntok)
               THEN apc' = [apc EXCEPT ![g] = "switch"] /\ UNCHANGED <<writer, how>>
               ELSE /\ apc' = [apc EXCEPT ![g] = "idle"] /\ writer' = 0
                    /\ how' = [how EXCEPT ![g] = "authentication failed"]
            /\ UNCHANGED <<age, okAge>>
    /\ UNCHANGED <<exceptAuth, ntok, cur, failed, aop, nswitch>>

\* switchToNextToken, called by checkAuth.
AuthSwitch ==
  \E g \in Goroutines :
    /\ apc[g] = "switch"
    /\ failed' = failed \cup {cur}
    /\ nswitch' = [nswitch EXCEPT ![g] = @ + 1]
    /\ LET next == NextToken(cur, failed \cup {cur}, ntok)
       IN  IF next >= 0
           THEN /\ cur' = next /\ valid' = FALSE /\ okAge' = AuthCheckTimeout
                /\ apc' = [apc EXCEPT ![g] = "retry"]
                /\ UNCHANGED <<writer, how>>
           ELSE /\ apc' = [apc EXCEPT ![g] = "idle"] /\ writer' = 0
                /\ how' = [how EXCEPT ![g] = "all tokens invalid"]
                /\ UNCHANGED <<cur, valid, okAge>>
    /\ UNCHANGED <<exceptAuth, ntok, age, aop, vcount, lastReq>>

\* checkAuth: GetUserInfo again after the switch.
AuthRetry ==
  \E g \in Goroutines, ok \in BOOLEAN :
    /\ apc[g] = "retry"
    /\ Sent("identity", g)
    /\ writer' = 0
    /\ IF ok
       THEN /\ valid' = TRUE /\ age' = 0 /\ okAge' = 0 /\ vcount' = vcount + 1
            /\ apc' = [apc EXCEPT ![g] = "build"] /\ how' = [how EXCEPT ![g] = "switched"]
       ELSE /\ apc' = [apc EXCEPT ![g] = "idle"]
            /\ how' = [how EXCEPT ![g] = "authentication failed after token switch"]
            /\ UNCHANGED <<valid, age, okAge, vcount>>
    /\ UNCHANGED <<exceptAuth, ntok, cur, failed, aop, nswitch>>

\* makeRequest after checkAuth: the request is built with qc.cookies and sent.
AuthBuild ==
  \E g \in Goroutines :
    /\ apc[g] = "build"
    /\ Sent(aop[g], g)
    /\ apc' = [apc EXCEPT ![g] = IF aop[g] = "sign" THEN "put" ELSE "idle"]
    /\ UNCHANGED <<exceptAuth, ntok, cur, failed, valid, age, writer, aop, nswitch, how,
                   okAge, vcount>>

\* upPart: the PUT is sent to the object store with the Authorization obtained.
AuthPut ==
  \E g \in Goroutines :
    /\ apc[g] = "put"
    /\ Sent("put", g)
    /\ apc' = [apc EXCEPT ![g] = "idle"]
    /\ UNCHANGED <<exceptAuth, ntok, cur, failed, valid, age, writer, aop, nswitch, how,
                   okAge, vcount>>

\* Time passes.
AuthTick ==
  /\ age' = Min(age + 1, AuthCheckTimeout)
  /\ okAge' = Min(okAge + 1, AuthCheckTimeout)
  /\ vcount' = 0
  /\ <<age', okAge', vcount'>> # <<age, okAge, vcount>>
  /\ UNCHANGED <<exceptAuth, ntok, cur, failed, valid, writer, apc, aop, nswitch, how,
                 lastReq>>

NextAuth ==
  \/ AuthStart \/ AuthRead \/ AuthLock \/ AuthValidate \/ AuthSwitch \/ AuthRetry
  \/ AuthBuild \/ AuthPut \/ AuthTick

SpecAuth == InitAuth /\ [][NextAuth]_vars

\* The step of goroutine g in action A.
StepOf(g, A) == A /\ apc'[g] # apc[g]

\* Every identity call returns and switchToNextToken runs on; sync.RWMutex
\* hands the lock to a goroutine that waits for it.
FairAuth ==
  \A g \in Goroutines :
    /\ WF_vars(StepOf(g, AuthValidate)) /\ WF_vars(StepOf(g, AuthSwitch))
    /\ WF_vars(StepOf(g, AuthRetry))
    /\ SF_vars(StepOf(g, AuthRead)) /\ SF_vars(StepOf(g, AuthLock))

\* Pools of one token and of two.
InitAuthLive == InitAuth /\ ntok \in {1, 2}

SpecAuthLive == InitAuthLive /\ [][NextAuth]_vars /\ FairAuth

\* ------------------------------------------------------------ normalizePath
\* A path is a sequence of characters: the two separators and a letter.
MaxPathLen == 4

PathChars == {"/", "\\", "a", "."}

RECURSIVE PathsOfLen(_)
PathsOfLen(n) ==
  IF n = 0 THEN {<<>>}
  ELSE { Append(q, c) : q \in PathsOfLen(n - 1), c \in PathChars }

Paths == UNION { PathsOfLen(n) : n \in 0..MaxPathLen }

\* Mutant: the backslashes are kept.
ReplaceBackslashesNone(path) == path

\* strings.ReplaceAll(path, "\\", "/")
ReplaceBackslashes(path) ==
  [i \in 1..Len(path) |-> IF path[i] = "\\" THEN "/" ELSE path[i]]

\* strings.Contains(path, "//")
ContainsDouble(path) ==
  \E i \in 1..(Len(path) - 1) : path[i] = "/" /\ path[i + 1] = "/"

\* strings.ReplaceAll(path, "//", "/"): the matches are taken from the left
\* and do not overlap.
RECURSIVE ReplaceDoubles(_)
ReplaceDoubles(path) ==
  IF Len(path) < 2 THEN path
  ELSE IF path[1] = "/" /\ path[2] = "/"
       THEN <<"/">> \o ReplaceDoubles(SubSeq(path, 3, Len(path)))
       ELSE <<path[1]>> \o ReplaceDoubles(Tail(path))

\* Mutant: one pass of ReplaceAll, no loop.
collapseOnce(path) == ReplaceDoubles(path)

\* for strings.Contains(path, "//") { path = strings.ReplaceAll(path, "//", "/") }
RECURSIVE collapse(_)
collapse(path) ==
  IF ContainsDouble(path) THEN collapse(ReplaceDoubles(path)) ELSE path

normalizePath(path) ==
  LET q == collapse(ReplaceBackslashes(path))
  IN  IF Len(q) > 1 /\ q[Len(q)] = "/" THEN SubSeq(q, 1, Len(q) - 1) ELSE q

\* path == "" || path == "/" || path == "."
IsRootPath(path) == path \in {<<>>, <<"/">>, <<".">>}

\* Mutant: the path is compared as it was given.
normalizeRootDirRaw(path) == IF IsRootPath(path) THEN <<"0">> ELSE normalizePath(path)

normalizeRootDir(path) ==
  LET q == normalizePath(path) IN IF IsRootPath(q) THEN <<"0">> ELSE q

\* GetFileInfo, its first lines: the root is answered at once, with no
\* request; any other path goes on to its parent and the listing.
GetFileInfoRoot(remotePath) ==
  IF IsRootPath(normalizePath(remotePath))
  THEN [root |-> TRUE, fid |-> "0", dir |-> TRUE, requests |-> 0]
  ELSE NoRootInfo

InitPath ==
  /\ IdleUpload /\ IdleDirs /\ IdleCodec /\ IdleStore /\ IdleAuth /\ IdleQueue /\ IdleList
  /\ npc = "given" /\ pIn \in Paths /\ pOnce = <<>> /\ pTwice = <<>>
  /\ pRoot = <<>> /\ pInfo = NoRootInfo /\ pDest = NoDest

\* filepath.Base: the trailing separators are dropped first.
RECURSIVE StripSlashes(_)
StripSlashes(path) ==
  IF Len(path) > 0 /\ path[Len(path)] = "/"
  THEN StripSlashes(SubSeq(path, 1, Len(path) - 1)) ELSE path

\* filepath.Base
Base(path) ==
  LET t == StripSlashes(path)
      slashes == { i \in 1..Len(t) : t[i] = "/" }
      last == IF slashes = {} THEN 0 ELSE CHOOSE i \in slashes : \A j \in slashes : j <= i
  IN  IF Len(path) = 0 THEN <<".">>
      ELSE IF Len(t) = 0 THEN <<"/">>
      ELSE SubSeq(t, last + 1, Len(t))

\* fileInfo.Name() of the local file
localFileName == <<"f">>

\* strings.TrimSuffix(path, "/")
TrimSlash(path) ==
  IF Len(path) > 0 /\ path[Len(path)] = "/" THEN SubSeq(path, 1, Len(path) - 1) ELSE path

\* UploadFile: the file name and the directory taken from the destination.
DestOf(dest) ==
  LET q == normalizePath(dest)
      asDir == (Len(q) > 0 /\ q[Len(q)] = "/") \/ Base(q) = <<>> \/ Base(q) = <<".">>
      dp == IF asDir THEN TrimSlash(q) \o <<"/">> \o localFileName ELSE q
      slashes == { i \in 1..Len(dp) : dp[i] = "/" }
      lastSlash == IF slashes = {} THEN 0
                   ELSE CHOOSE i \in slashes : \A j \in slashes : j <= i
      dir == IF dp = <<"/">> \/ dp = <<>> THEN <<"/">>
             ELSE IF lastSlash <= 1 THEN <<"/">>
             ELSE SubSeq(dp, 1, lastSlash - 1)
  IN  [destPath     |-> dp,
       destFileName |-> IF asDir THEN localFileName ELSE Base(q),
       destDirPath  |-> normalizePath(dir)]

\* UploadFile up to the destination directory, for the destination pIn.
UploadDest ==
  /\ npc = "given" /\ pDest = NoDest
  /\ pDest' = DestOf(pIn)
  /\ UNCHANGED <<exceptPath, npc, pIn, pOnce, pTwice, pRoot, pInfo>>

NormalizeOnce ==
  /\ npc = "given"
  /\ pOnce' = normalizePath(pIn)
  /\ pRoot' = normalizeRootDir(pIn)
  /\ pInfo' = GetFileInfoRoot(pIn)
  /\ npc' = "once"
  /\ UNCHANGED <<exceptPath, pIn, pTwice, pDest>>

NormalizeTwice ==
  /\ npc = "once"
  /\ pTwice' = normalizePath(pOnce)
  /\ npc' = "twice"
  /\ UNCHANGED <<exceptPath, pIn, pOnce, pRoot, pInfo, pDest>>

NextPath == NormalizeOnce \/ NormalizeTwice \/ UploadDest

SpecPath == InitPath /\ [][NextPath]_vars

\* ------------------------------------------------------------ the task queue
\* Tasks are numbered as AddTask makes them; a task's ID is the clock reading
\* of generateTaskID, which two calls may read alike.  The steps that hold
\* q.mu are atomic; executor.Execute runs outside the lock.
MaxTasks == 3

\* The list without its first entry of that ID (the loops over q.pending and
\* q.running that break at the first match).
RemoveFirst(list, id) ==
  LET s == { i \in 1..Len(list) : ids[list[i]] = id }
  IN  IF s = {} THEN list
      ELSE LET i == CHOOSE k \in s : \A j \in s : k <= j
           IN  SubSeq(list, 1, i - 1) \o SubSeq(list, i + 1, Len(list))

InitQueue ==
  /\ IdleUpload /\ IdleDirs /\ IdleCodec /\ IdleStore /\ IdleAuth /\ IdlePath
  /\ IdleQueue /\ IdleList

\* Start(executor): the executor is set and the workers are started.
QStart ==
  /\ ~started
  /\ started' = TRUE
  /\ UNCHANGED <<exceptQueue, stopped, ids, status, tasks, pending, running, completed,
                 wk, executed, cancelled, wpc>>

\* AddTask: the ID is the clock reading, the one of the task before when the
\* clock reads the same.
QAddTask ==
  /\ Len(ids) < MaxTasks
  /\ \E same \in (IF ids = <<>> THEN {FALSE} ELSE BOOLEAN) :
       LET t  == Len(ids) + 1
           id == IF ids = <<>> THEN 1
                 ELSE IF same THEN ids[Len(ids)] ELSE ids[Len(ids)] + 1
       IN  /\ ids' = Append(ids, id)
           /\ status' = Append(status, "pending")
           /\ executed' = Append(executed, 0)
           /\ tasks' = [i \in DOMAIN tasks \cup {id} |-> IF i = id THEN t ELSE tasks[i]]
           /\ pending' = Append(pending, t)
  /\ UNCHANGED <<exceptQueue, started, stopped, running, completed, wk, cancelled, wpc>>

\* worker: stopCh is not closed, getNextPendingTask gives a task.
QDequeue ==
  \E w \in Workers :
    /\ started /\ ~stopped /\ wk[w].pc = "idle" /\ pending # <<>>
    /\ LET task == Head(pending)
       IN  /\ pending' = Tail(pending)
           /\ running' = Append(running, task)
           /\ status' = [status EXCEPT ![task] = "running"]
           /\ wk' = [wk EXCEPT ![w] = [pc |-> "exec", task |-> task]]
    /\ UNCHANGED <<exceptQueue, started, stopped, ids, tasks, completed, executed,
                   cancelled, wpc>>

\* executeTask: executor.Execute(task) is called.
QExecute ==
  \E w \in Workers :
    /\ wk[w].pc = "exec"
    /\ executed' = [executed EXCEPT ![wk[w].task] = @ + 1]
    /\ wk' = [wk EXCEPT ![w].pc = "done"]
    /\ UNCHANGED <<exceptQueue, started, stopped, ids, status, tasks, pending, running,
                   completed, cancelled, wpc>>

\* executeTask: Execute has returned; under the lock the status is set, the
\* first entry of the task's ID leaves q.running and the task joins q.completed.
QComplete ==
  \E w \in Workers, err \in BOOLEAN :
    /\ wk[w].pc = "done"
    /\ LET task == wk[w].task
       IN  /\ status' = [status EXCEPT ![task] = IF err THEN "failed" ELSE "completed"]
           /\ running' = RemoveFirst(running, ids[task])
           /\ completed' = Append(completed, task)
    /\ wk' = [wk EXCEPT ![w] = [pc |-> "idle", task |-> 0]]
    /\ UNCHANGED <<exceptQueue, started, stopped, ids, tasks, pending, executed,
                   cancelled, wpc>>

\* worker: stopCh is closed, the worker returns.
QWorkerExit ==
  \E w \in Workers :
    /\ started /\ stopped /\ wk[w].pc = "idle"
    /\ wk' = [wk EXCEPT ![w].pc = "gone"]
    /\ UNCHANGED <<exceptQueue, started, stopped, ids, status, tasks, pending, running,
                   completed, executed, cancelled, wpc>>

\* CancelTask(taskID) that returns nil: the task of that ID in q.tasks is
\* pending; the first entry of the ID leaves q.pending.  (A call that
\* returns an error changes nothing.)
QCancel ==
  \E id \in DOMAIN tasks :
    /\ status[tasks[id]] = "pending"
    /\ pending' = RemoveFirst(pending, id)
    /\ status' = [status EXCEPT ![tasks[id]] = "cancelled"]
    /\ cancelled' = cancelled \cup {tasks[id]}
    /\ UNCHANGED <<exceptQueue, started, stopped, ids, tasks, running, completed, wk,
                   executed, wpc>>

\* Wait is called.
QWaitCall ==
  /\ wpc = "none"
  /\ wpc' = "waiting"
  /\ UNCHANGED <<exceptQueue, started, stopped, ids, status, tasks, pending, running,
                 completed, wk, executed, cancelled>>

\* Mutant: only the pending count is looked at.
QWaitReturnPendingOnly ==
  /\ wpc = "waiting"
  /\ Len(pending) = 0
  /\ wpc' = "returned"
  /\ UNCHANGED <<exceptQueue, started, stopped, ids, status, tasks, pending, running,
                 completed, wk, executed, cancelled>>

\* Wait: the round of its loop that reads both counts as 0 and breaks.  (Any
\* other round sleeps and changes nothing.)
QWaitReturn ==
  /\ wpc = "waiting"
  /\ Len(pending) = 0 /\ Len(running) = 0
  /\ wpc' = "returned"
  /\ UNCHANGED <<exceptQueue, started, stopped, ids, status, tasks, pending, running,
                 completed, wk, executed, cancelled>>

\* Stop: stopCh is closed.
QStop ==
  /\ started /\ ~stopped
  /\ stopped' = TRUE
  /\ UNCHANGED <<exceptQueue, started, ids, status, tasks, pending, running, completed,
                 wk, executed, cancelled, wpc>>

NextQueue ==
  \/ QStart \/ QAddTask \/ QDequeue \/ QExecute \/ QComplete \/ QWorkerExit
  \/ QCancel \/ QWaitCall \/ QWaitReturn \/ QStop

SpecQueue == InitQueue /\ [][NextQueue]_vars

\* The workers run on, every Execute call returns, and Wait goes on polling.
FairQueue ==
  /\ WF_vars(QDequeue) /\ WF_vars(QExecute) /\ WF_vars(QComplete)
  /\ WF_vars(QWaitReturn)

SpecQueueLive == InitQueue /\ [][NextQueue]_vars /\ FairQueue

\* ------------------------------------------------------------ listByFid, any service
\* The loop of listByFid against a service that answers each page request as
\* it likes: a failure, or up to PageSize entries with or without a total.
MaxTotal == 5

MaxCount == 6

MaxPage == 4

Pages ==
  [ok : {TRUE}, n : 0..PageSize, total : -1..MaxTotal] \cup {[ok |-> FALSE, n |-> 0, total |-> -1]}

InitList ==
  /\ IdleUpload /\ IdleDirs /\ IdleCodec /\ IdleStore /\ IdleAuth /\ IdlePath /\ IdleQueue
  /\ lpc = "idle" /\ lcount = 0 /\ lpage = 1 /\ lresp = NoPage

\* listByFid is called: page = 1, allFileList empty, hasMore true.
ListStart ==
  /\ lpc # "loop"
  /\ lpc' = "loop" /\ lcount' = 0 /\ lpage' = 1 /\ lresp' = NoPage
  /\ UNCHANGED exceptList

\* One round of the loop: the request of page lpage and the service's answer.
ListPage ==
  /\ lpc = "loop"
  /\ \E a \in Pages :
       LET count == Min(lcount + a.n, MaxCount)
       IN  /\ lresp' = a
           /\ IF ~a.ok THEN lpc' = "failed" /\ UNCHANGED <<lcount, lpage>>
              ELSE IF a.n = 0 THEN lpc' = "returned" /\ UNCHANGED <<lcount, lpage>>
              ELSE /\ lcount' = count
                   /\ IF a.n < PageSize
                      THEN lpc' = "returned" /\ UNCHANGED lpage
                      ELSE /\ lpage' = (lpage % MaxPage) + 1
                           /\ lpc' = IF HasMore(a.n, count, a.total) THEN "loop"
                                     ELSE "returned"
  /\ UNCHANGED exceptList

NextList == ListStart \/ ListPage

SpecList == InitList /\ [][NextList]_vars

\* Every page request is answered.
SpecListLive == InitList /\ [][NextList]_vars /\ WF_vars(ListPage)

TypeOK ==
  /\ pc \in {"idle", "pre", "hash", "pre2", "hash2", "instant", "instantDone",
             "read", "put", "putResp", "save", "commit", "commitResp", "finish"}
  /\ file.size \in 0..MaxFileSize /\ file.ver \in 1..MaxVer
  /\ partNumber \in 1..(MaxFileSize + 1)
  /\ Len(etags) <= MaxFileSize + 1

\* ------------------------------------------------------------ vocabulary of the claims
IsPut(c) == c.op = "put"

PutCalls == SelectSeq(calls, IsPut)

NoPutYet == Len(PutCalls) = 0

CallsOf(op) == { i \in 1..Len(calls) : calls[i].op = op }

\* ceil(size / partSize): the number of chunks of the file.
Chunks(size, partSize) == (size + partSize - 1) \div partSize

\* The smallest part number >= 1 that is not in R.
LeastMissing(R) == CHOOSE i \in 1..(Cardinality(R) + 1) : i \notin R /\ \A j \in 1..(i - 1) : j \in R

Record == disk[StatePath]

Returns == pc # "idle" /\ pc' = "idle" /\ result'.Code # ""

\* ------------------------------------------------------------ C1
\* C1 (as claimed, for a session the service still accepts): an invocation that
\* follows the termination of a non-resumed upload after the save of part k,
\* with the same paths and the file unchanged, sends no part number <= k, and
\* the first part it sends is k + 1.
C1_ResumesAfterLastSavedPart ==
  (resumeK > 0 /\ useSavedState /\ pc = "put") =>
     /\ partNumber > resumeK
     /\ NoPutYet => partNumber = resumeK + 1

\* ------------------------------------------------------------ C2
\* C2: when a read of the file or a part-PUT fails, the step that returns has
\* written the record of the key: it holds the paths, the size, the negotiation
\* in use and the ETag of every part 1..partNumber-1 accepted so far; the
\* result is READ_FILE_ERROR or UPLOAD_PART_ERROR.
C2_FailurePersistsProgress ==
  [][ (pc \in {"read", "put", "putResp"} /\ Returns) =>
        LET rec == disk'[StatePath]
        IN  /\ ~result'.Success
            /\ result'.Code = IF pc = "read" THEN "READ_FILE_ERROR" ELSE "UPLOAD_PART_ERROR"
            /\ rec.exists
            /\ rec.FilePath = filePath /\ rec.DestPath = destPath /\ rec.FileSize = fileSize
            /\ rec.UploadID = pre.id /\ rec.PartSize = pre.PartSize
            /\ Len(etags) = partNumber - 1
            /\ \A i \in 1..(partNumber - 1) :
                 i \in DOMAIN rec.UploadedParts /\ rec.UploadedParts[i] = etags[i] ]_vars

\* A part-PUT failed after two parts had been accepted, one of them in an
\* earlier invocation.
C2_Witness ==
  /\ pc = "idle" /\ result.Code = "UPLOAD_PART_ERROR"
  /\ \E p \in StatePaths : disk[p].exists /\ DOMAIN disk[p].UploadedParts = {1}

\* ------------------------------------------------------------ C3
\* C3 (as claimed): the part list of a commit request names the parts 1..N in
\* ascending order, N the number of chunks of the file, and the ETag listed
\* for part i is the one upPart returned last for part i.
C3_CommitListsLatestEtags ==
  pc = "commitResp" =>
     /\ Len(commitReq) = Chunks(fileSize, pre.PartSize)
     /\ \A i \in 1..Len(commitReq) :
          commitReq[i].PartNumber = i /\ commitReq[i].ETag = lastOk[i]

\* ------------------------------------------------------------ C4
\* C4: before the first part-PUT of an invocation, partNumber is the smallest
\* part number the trusted record lacks, the chunk was read at offset
\* (partNumber-1)*partSize and etags holds the recorded ETags of the parts
\* before it; without a trusted record partNumber is 1 and the offset 0.
C4_ResumeOffset ==
  (pc = "put" /\ NoPutYet) =>
     IF useSavedState
     THEN LET R == DOMAIN savedState.UploadedParts
          IN  /\ partNumber = LeastMissing(R)
              /\ offset - chunkLen = (partNumber - 1) * pre.PartSize
              /\ etags = [i \in 1..(partNumber - 1) |-> savedState.UploadedParts[i]]
     ELSE partNumber = 1 /\ offset - chunkLen = 0 /\ etags = <<>>

\* A trusted record with part 1: the first PUT is part 2, read past the start.
C4_Witness ==
  /\ pc = "put" /\ NoPutYet /\ useSavedState
  /\ partNumber = 2 /\ offset - chunkLen > 0

\* ------------------------------------------------------------ C5
Rank(c) ==
  CASE c.op = "pre"    -> 1
    [] c.op = "hash"   -> 2
    [] c.op = "put"    -> 3
    [] c.op = "commit" -> 4
    [] c.op = "finish" -> 5

HashFailed(c) == c.op = "hash" /\ c.kind = "err"

HashPassed(c) == c.op = "hash" /\ c.kind = "noFinish"

HashInstant(c) == c.op = "hash" /\ c.kind = "finish"

C6_InstantAlwaysSucceeds ==
  [][ (pc \in {"instant", "instantDone"} /\ Returns) => result'.Success ]_vars

\* C6 (amended): after a hash submission that reports the content as known,
\* no part-PUT and no commit is issued and finalize is called once; if finalize
\* succeeds, 100 is reported, the record of the key is deleted and success is
\* returned; if finalize fails, the result is FINISH_UPLOAD_ERROR, nothing is
\* reported and the records stay as they are.
C6_InstantComplete ==
  [][ /\ pc \in {"instant", "instantDone"} =>
           CallsOf("put") = {} /\ CallsOf("commit") = {}
      /\ (pc = "instant" /\ pc' = "instantDone") =>
           /\ CallsOf("finish") = {}
           /\ calls' = Append(calls, [op |-> "finish", part |-> 0, kind |-> "ok"])
           /\ progress' = <<100>>
      /\ (pc = "instant" /\ Returns) =>
           /\ result' = [Success |-> FALSE, Code |-> "FINISH_UPLOAD_ERROR"]
           /\ progress = <<>> /\ disk' = disk
      /\ (pc = "instantDone" /\ Returns) =>
           /\ result' = [Success |-> TRUE, Code |-> "OK"]
           /\ Cardinality(CallsOf("finish")) = 1
           /\ progress = <<100>>
           /\ ~disk'[StatePath].exists
    ]_vars

\* Instant upload on a reused session: finalize succeeded, 100 was reported
\* and the record of the key is still there to delete.
C6_Witness ==
  pc = "instantDone" /\ Record.exists /\ useSavedState /\ progress = <<100>>

\* ------------------------------------------------------------ C7
PutAccepted(kind) == kind \in {"ok200", "409etag"}

\* C7: a 409 PartAlreadyExist with a PartEtag makes upPart return that ETag
\* like a 200: it is appended to etags, then written to the record under the
\* part number, progress is reported and the next part number follows; a 409
\* without PartEtag ends the invocation with UPLOAD_PART_ERROR.
C7_PartAlreadyExist ==
  [][ /\ (pc = "putResp" /\ resp.kind = "409etag") =>
           \/ pc' = "idle" /\ result' = NoResult
           \/ /\ pc' = "save" /\ resp.etag # NoEtag
              /\ etags' = Append(etags, trimQuotes(resp.etag))
      /\ (pc = "putResp" /\ resp.kind = "409noEtag") =>
           /\ pc' = "idle" /\ etags' = <<>>
           /\ result' \in {NoResult, [Success |-> FALSE, Code |-> "UPLOAD_PART_ERROR"]}
      /\ (pc = "save" /\ pc' # "idle") =>
           /\ PutAccepted(calls[Len(calls)].kind)
           /\ calls[Len(calls)].part = partNumber
           /\ pc' = "read"
           /\ disk'[StatePath].exists
           /\ partNumber \in DOMAIN disk'[StatePath].UploadedParts
           /\ disk'[StatePath].UploadedParts[partNumber] = etags[Len(etags)]
           /\ Len(progress') = Len(progress) + 1
           /\ partNumber' = partNumber + 1
    ]_vars

\* A 409 with PartEtag was answered for part 1; its ETag is in the record and
\* part 2 is next.
C7_Witness ==
  /\ pc = "read" /\ partNumber = 2 /\ Len(calls) > 0
  /\ calls[Len(calls)].op = "put" /\ calls[Len(calls)].part = 1
  /\ calls[Len(calls)].kind = "409etag"
  /\ Record.exists /\ 1 \in DOMAIN Record.UploadedParts
  /\ Record.UploadedParts[1] = etags[1] /\ ~etags[1].q

\* ------------------------------------------------------------ C8
\* C8: the part-PUTs of an invocation carry the part numbers startPartNumber,
\* startPartNumber + 1, ...; a PUT is sent only when every PUT before it was
\* accepted and the ETag of the part before it is in the record; a PUT that
\* is not accepted ends the invocation.
C8_SequentialParts ==
  [][ /\ \A i \in 1..Len(PutCalls) :
           /\ PutCalls[i].part = startPartNumber + i - 1
           /\ i < Len(PutCalls) => PutAccepted(PutCalls[i].kind)
      /\ pc = "put" =>
           /\ partNumber = startPartNumber + Len(PutCalls)
           /\ Len(PutCalls) > 0 =>
                /\ Record.exists /\ (partNumber - 1) \in DOMAIN Record.UploadedParts
                /\ Record.UploadedParts[partNumber - 1] = etags[partNumber - 1]
      /\ (pc = "putResp" /\ ~PutAccepted(resp.kind)) => pc' = "idle"
    ]_vars

\* Two parts were sent one after the other in one invocation.
C8_Witness ==
  /\ pc = "putResp" /\ Len(PutCalls) = 2
  /\ PutCalls[1].part = 1 /\ PutCalls[2].part = 2

\* ------------------------------------------------------------ C9
\* C9 (as claimed): no ETag of a part sent with an earlier content of the file
\* is listed in a commit for the present content.
C9_NoStaleContentCommitted ==
  pc = "commitResp" => \A i \in 1..Len(commitReq) : commitReq[i].ETag.ver = file.ver

\* ------------------------------------------------------------ C10
\* C10: a record is used only if its local path, destination and size equal
\* those of the invocation; an invocation that found another record has
\* deleted it without returning, negotiates before anything else and sends
\* part 1 first.
C10_RecordValidation ==
  [][ /\ useSavedState =>
           /\ savedState.exists
           /\ savedState.FilePath = filePath /\ savedState.DestPath = destPath
           /\ savedState.FileSize = fileSize
      /\ (pc = "idle" /\ pc' # "idle" /\ disk[StatePath'].exists) =>
           IF  /\ disk[StatePath'].FilePath = filePath'
               /\ disk[StatePath'].DestPath = destPath'
               /\ disk[StatePath'].FileSize = file.size
           THEN useSavedState' /\ savedState' = disk[StatePath'] /\ ~mismatch'
           ELSE /\ mismatch' /\ ~useSavedState' /\ ~disk'[StatePath'].exists
                /\ pc' = "pre" /\ result' = NoResult
      /\ mismatch =>
           /\ ~useSavedState
           /\ pc # "pre" => calls[1] = [op |-> "pre", part |-> 0, kind |-> "ok"]
           /\ Len(PutCalls) > 0 => PutCalls[1].part = 1
           /\ pc = "put" /\ NoPutYet => partNumber = 1
    ]_vars

\* A record of the same key made for another size was deleted and part 1 of
\* the new negotiation is on its way.
C10_Witness ==
  mismatch /\ pc = "putResp" /\ Len(PutCalls) = 1 /\ fileSize = 2

\* ------------------------------------------------------------ C11
\* The values a usable record needs: a map of uploaded parts with part numbers
\* >= 1, a positive part size and an upload id.
ValidRecord(st) ==
  /\ st.form = "ok"
  /\ st.PartSize > 0
  /\ st.UploadID # 0
  /\ \A i \in DOMAIN st.UploadedParts : i >= 1

\* C11 (as claimed): when a part-PUT or the commit is sent with the values of
\* a record, the record parsed and carries no invalid value; a record that
\* does not parse or carries one is not used.
C11_MalformedRecordUnused ==
  (pc \in {"putResp", "commitResp"} /\ useSavedState) => ValidRecord(savedState)

\* ------------------------------------------------------------ C12
\* C12 (as claimed): a return with a failure of the hash submission, of the
\* commit or of finalize leaves the record of the key on disk, holding the
\* negotiation in use and the ETag of every part accepted so far.
C12_LateFailureLeavesRecord ==
  [][ (Returns /\ result'.Code \in {"HASH_VERIFICATION_ERROR", "COMMIT_UPLOAD_ERROR",
                                    "FINISH_UPLOAD_ERROR"}) =>
        LET rec == disk'[StatePath]
        IN  /\ rec.exists
            /\ rec.UploadID = pre.id /\ rec.PartSize = pre.PartSize
            /\ \A i \in 1..Len(etags) :
                 i \in DOMAIN rec.UploadedParts /\ rec.UploadedParts[i] = etags[i] ]_vars

\* ------------------------------------------------------------ C13
CommitsSent == { i \in CallsOf("commit") : calls[i].kind = "sent" }

ErrorCodes ==
  {"FILE_OPEN_ERROR", "PRE_UPLOAD_ERROR", "CALCULATE_HASH_ERROR", "HASH_VERIFICATION_ERROR",
   "FINISH_UPLOAD_ERROR", "READ_FILE_ERROR", "UPLOAD_PART_ERROR", "COMMIT_UPLOAD_ERROR"}

\* C14 (as claimed): whatever the file, the state file and the answers are, an
\* invocation that is not cut off ends with a result: success, or a failure
\* with a symbolic code; it never ends in a panic.
C14_AlwaysStructuredResult ==
  pc = "idle" =>
    \/ result = NoResult
    \/ result = [Success |-> TRUE, Code |-> "OK"]
    \/ \E c \in ErrorCodes : result = [Success |-> FALSE, Code |-> c]

\* ------------------------------------------------------------ C15
\* C15 (as claimed): when the commit for a 0-byte file is sent, exactly one
\* part-PUT, part 1, has been sent and the commit lists exactly one part.
C15_EmptyFileOnePart ==
  (pc = "commitResp" /\ fileSize = 0) =>
     /\ Len(PutCalls) = 1 /\ PutCalls[1].part = 1
     /\ Len(commitReq) = 1


\* C16: when /new, /new/deep and /new/deep/dir are all missing, UploadFile to
\* /new/deep/dir/file.bin sends three folder creations and then the
\* pre-upload: the first creation names "0" as parent, each later one the fid
\* the creation before it returned, and the pre-upload the fid of the third.
C16_CreationsChained ==
  (destDirPath = <<"new", "deep", "dir">> /\ Len(reqs) > 0
     /\ reqs[1].op = "create" /\ reqs[1].file_name = "new")
  => /\ reqs[1].pdir_fid = "0"
     /\ \A i \in 2..Len(reqs) :
          /\ reqs[i - 1].op = "create"
          /\ reqs[i].pdir_fid = reqs[i - 1].fid
          /\ reqs[i].op = (IF i = 4 THEN "pre" ELSE "create")
     /\ Len(reqs) <= 4

\* The entries of directory f named n, as the drive holds them.
Named(f, n) == { i \in 1..Len(remote[f].entries) : remote[f].entries[i].name = n }

\* C17: GetFileInfo lists one directory per level from the root down: the
\* root first, then at each level the first entry of the listing above that
\* bears the component's name, the leaf's parent last; a call that succeeds
\* has listed every level, and when a component before the leaf has no entry
\* in its parent the call answers FILE_NOT_FOUND and has listed nothing below.
C17_TopDownListings ==
  info # NoInfo =>
    LET L == info.listed
        d == Len(query)
    IN  /\ Len(L) <= d
        /\ info.Success => Len(L) = d
        /\ \A j \in 1..Len(L) :
             IF j = 1 THEN L[j] = "0"
             ELSE /\ Named(L[j - 1], query[j - 1]) # {}
                  /\ \E i \in Named(L[j - 1], query[j - 1]) :
                       /\ L[j] = remote[L[j - 1]].entries[i].fid
                       /\ \A k \in Named(L[j - 1], query[j - 1]) : i <= k
        /\ \A j \in 1..(d - 1) :
             (Len(L) >= j /\ L[j] \in DOMAIN remote /\ remote[L[j]].ok
                /\ Named(L[j], query[j]) = {})
             => info.Code = "FILE_NOT_FOUND" /\ Len(L) = j

\* /new exists and /new/deep does not: the call for /new/deep/dir listed the
\* root and /new and answered FILE_NOT_FOUND.
C17_Witness ==
  /\ query = <<"new", "deep", "dir">>
  /\ info.Code = "FILE_NOT_FOUND" /\ info.listed = <<"0", "d1">>
  /\ Named("d1", "deep") = {}

\* Page p of directory f as the service answers it, and pages 1..p in a row.
PageOf(f, p) == ServerPage(remote, f, p).list

RECURSIVE PagesUpTo(_, _)
PagesUpTo(f, p) == IF p = 0 THEN <<>> ELSE PagesUpTo(f, p - 1) \o PageOf(f, p)

\* Page p ends the listing of f: it is empty or short, or the entries so far
\* reach the total the service declares.
EndsListing(f, p) ==
  \/ Len(PageOf(f, p)) < PageSize
  \/ ServerPage(remote, f, p).total >= 0
       /\ Len(PagesUpTo(f, p)) >= ServerPage(remote, f, p).total

LastPage(f) ==
  CHOOSE p \in 1..(Len(remote[f].entries) + 1) :
    EndsListing(f, p) /\ \A q \in 1..(p - 1) : ~EndsListing(f, q)

\* The directory GetFileInfo listed last was listed without failure.
ParentListed ==
  /\ info # NoInfo /\ query # <<>> /\ Len(info.listed) = Len(query)
  /\ info.listed[Len(query)] \in DOMAIN remote
  /\ remote[info.listed[Len(query)]].ok

\* C18: the listing GetFileInfo scans is pages 1..k of the parent in page
\* order, k the first page that is empty, short, or reaches the declared
\* total; the entry returned is the first of them that bears the leaf name,
\* and the answer is FILE_NOT_FOUND exactly when the parent directory holds
\* no entry of that name.
C18_PagesConcatenated ==
  ParentListed =>
    LET f    == info.listed[Len(query)]
        leaf == query[Len(query)]
        all  == PagesUpTo(f, LastPage(f))
        hits == { i \in 1..Len(all) : all[i].name = leaf }
    IN  /\ info.list = all
        /\ info.Success <=> hits # {}
        /\ info.Success =>
             \E i \in hits : info.fid = all[i].fid /\ \A j \in hits : i <= j
        /\ info.Code = "FILE_NOT_FOUND" <=> Named(f, leaf) = {}

\* A directory of two full pages that declares its total: the listing stopped
\* at the second page and the leaf was found on it, behind an entry of the
\* same name.
C18_Witness ==
  /\ ParentListed /\ info.Success
  /\ remote[info.listed[Len(query)]].total
  /\ Len(info.list) = 2 * PageSize
  /\ info.list[2 * PageSize].name = query[Len(query)]
  /\ info.list[2 * PageSize - 1].fid = info.fid

\* C19: a part-PUT carries the X-Oss-Hash-Ctx header exactly when its part
\* number is 2 or more, in a resumed invocation as in any other.
C19_HashCtxOnLaterParts ==
  \A i \in 1..Len(calls) :
    calls[i].op = "put" =>
      (("X-Oss-Hash-Ctx" \in calls[i].headers) <=> calls[i].part >= 2)

C21_LoadReturnsSaved ==
  spc = "loaded" =>
    /\ \A f \in DOMAIN sess \ {"CreatedAt"} : loadedState[f] = sess[f]
    /\ loadedState.CreatedAt.wall = sess.CreatedAt.wall

\* C22: the state file of an upload is its own: no step of an invocation
\* changes or deletes a record that names another (localPath, destPath) pair
\* than the invocation's, which different pairs having different state files
\* would ensure.
C22_RecordsApart ==
  [][ \A p \in StatePaths :
        (disk[p].exists /\ disk'[p] # disk[p])
        => LET fp == IF pc = "idle" THEN filePath' ELSE filePath
               dp == IF pc = "idle" THEN destPath' ELSE destPath
           IN  disk[p].FilePath = fp /\ disk[p].DestPath = dp
    ]_vars

\* C23: a call of switchToNextToken marks the current token failed; when a
\* token is left unmarked it makes current the first unmarked one in cyclic
\* index order after the current one and invalidates the liveness cache;
\* when none is left the call ends with the exhaustion error.
C23_SwitchToNextUnfailed ==
  [][ \A g \in Goroutines :
        (apc[g] = "switch" /\ apc'[g] # "switch") =>
          /\ failed' = failed \cup {cur}
          /\ IF \E i \in 0..(ntok - 1) : i \notin failed'
             THEN LET d == (cur' - cur + ntok) % ntok
                  IN  /\ cur' \notin failed'
                      /\ \A k \in 1..(d - 1) : (cur + k) % ntok \in failed'
                      /\ ~valid'
                      /\ apc'[g] = "retry"
             ELSE /\ how'[g] = "all tokens invalid"
                  /\ apc'[g] = "idle"
    ]_vars

C23_Witness ==
  /\ ntok = 3 /\ cur = 0 /\ 2 \in failed /\ 1 \notin failed
  /\ \E g \in Goroutines : apc[g] = "retry"

\* C24: the mark of a failed token is never cleared, no request (identity
\* calls included) is sent with a token that is marked failed, and once every
\* token is marked no call passes checkAuth.
C24_FailedNeverUsed ==
  [][ /\ failed \subseteq failed'
      /\ lastReq' # lastReq => ~lastReq'.marked
      /\ failed = 0..(ntok - 1) =>
           \A g \in Goroutines : apc'[g] = "build" => apc[g] = "build"
    ]_vars

\* C25: a checkAuth call whose identity validation failed has called
\* switchToNextToken exactly once when it returns, whatever the pool size.
C25_OneFailoverPerFailure ==
  [][ \A g \in Goroutines :
        ( /\ apc[g] \in {"validate", "switch", "retry"}
          /\ apc'[g] \in {"idle", "build"}
          /\ how'[g] # "validated" )
        => nswitch'[g] = 1
    ]_vars

\* C26: a request other than an identity call is sent only when the current
\* token was validated with success less than authCheckTimeout before the
\* sending, and an identity call is made only when the cache is invalid or
\* at least authCheckTimeout old.
C26_ValidatedBeforeSend ==
  [][ lastReq' # lastReq =>
        IF lastReq'.kind = "identity"
        THEN ~CacheFresh(valid, age)
        ELSE lastReq'.okAge < AuthCheckTimeout
    ]_vars

\* C26, as the code has it: a call passes checkAuth only when the current
\* token was validated with success less than authCheckTimeout before that
\* moment; a request other than an identity call is sent only by a call that
\* passed checkAuth (the PUT of upPart by the call whose signing request
\* passed it); an identity call is made only when the cache is invalid or at
\* least authCheckTimeout old.
C26_GatedByFreshCache ==
  [][ /\ \A g \in Goroutines :
           (apc[g] # "build" /\ apc'[g] = "build")
           => valid' /\ okAge' < AuthCheckTimeout
      /\ lastReq' # lastReq =>
           IF lastReq'.kind = "identity"
           THEN ~CacheFresh(valid, age)
           ELSE /\ apc[lastReq'.g] \in {"build", "put"}
                /\ how[lastReq'.g] \in {"cached", "rechecked", "validated", "switched"}
    ]_vars

C26_Witness ==
  /\ lastReq.kind = "put" /\ how[lastReq.g] = "cached"
  /\ apc[lastReq.g] = "idle" /\ age < AuthCheckTimeout /\ valid

\* C27: goroutines that call checkAuth together while the cache is invalid
\* or expired make one identity call when it succeeds: an identity call is
\* made only by the holder of the exclusive lock, no second validation
\* succeeds at the same instant, and the other callers return from the cache.
C27_OneValidation ==
  /\ vcount <= 1
  /\ \A g \in Goroutines : apc[g] \in {"validate", "switch", "retry"} => writer = g

C27_Witness ==
  \E g, h \in Goroutines :
    /\ apc[g] = "build" /\ how[g] = "validated"
    /\ apc[h] = "build" /\ how[h] = "rechecked"
    /\ vcount = 1

\* C28: no goroutine is about to read the current token's cookies for the
\* request it builds, holding no lock, while another goroutine is about to
\* replace them in switchToNextToken.
C28_NoUnsynchronizedAccess ==
  \A g, h \in Goroutines :
    g # h =>
      ~ ( /\ apc[g] = "build"
          /\ apc[h] = "switch"
          /\ NextToken(cur, failed \cup {cur}, ntok) >= 0 )

\* C29: an invocation that returns success has reported percent 100 to the
\* progress callback before it returns (the callback is given).
C29_SuccessReported100 ==
  [][ (Returns /\ result'.Success) => \E i \in DOMAIN progress : progress[i] = 100 ]_vars

\* C30: normalizePath applied to its own result gives that result again, for
\* every path, and normalizePath of "/" is "/".
C30_NormalizeIdempotent ==
  /\ npc = "twice" => pTwice = pOnce
  /\ (npc # "given" /\ pIn = <<"/">>) => pOnce = <<"/">>

C30_Witness ==
  /\ npc = "twice" /\ pIn = <<"\\", "/", "a", "\\">> /\ pOnce = <<"/", "a">>

\* C31: for every path, normalizePath gives a string with no backslash, no
\* two consecutive slashes, and no slash at its end unless it is "/".
C31_NormalForm ==
  npc # "given" =>
    /\ \A i \in 1..Len(pOnce) : pOnce[i] # "\\"
    /\ \A i \in 1..(Len(pOnce) - 1) : ~(pOnce[i] = "/" /\ pOnce[i + 1] = "/")
    /\ (Len(pOnce) > 0 /\ pOnce[Len(pOnce)] = "/") => pOnce = <<"/">>

C31_Witness ==
  npc = "once" /\ pIn = <<"a", "\\", "\\", "/">> /\ pOnce = <<"a">>

\* C32: normalizeRootDir gives "0" for every path whose normal form is "",
\* "." or "/", and the normal form of the path for every other; GetFileInfo
\* of such a root path answers the directory "0" with no request.
C32_RootIsZero ==
  npc # "given" =>
    IF pOnce \in {<<>>, <<".">>, <<"/">>}
    THEN /\ pRoot = <<"0">>
         /\ pInfo.root /\ pInfo.fid = "0" /\ pInfo.dir /\ pInfo.requests = 0
    ELSE pRoot = pOnce /\ ~pInfo.root

C32_Witness ==
  npc = "once" /\ pIn = <<"\\", "/">> /\ pRoot = <<"0">> /\ pInfo.fid = "0"

\* C33: the pre-upload names as parent the directory at the destination's
\* parent path: when a lookup in the loop over the components failed for
\* another reason than not-found, or a creation came back without a fid,
\* UploadFile returns a failure and does not go on under another directory.
C33_ParentIsDestinationDir ==
  dpc = "pre" => destDirFid = FidOfPath(remote, destDirPath)

\* C34: when a component of the path resolves to a node that is not a
\* directory of the drive, the lookup fails without a listing request for
\* that node: every fid that GetFileInfo lists is a directory.
C34_OnlyDirectoriesListed ==
  info # NoInfo => \A j \in 1..Len(info.listed) : info.listed[j] \in DOMAIN remote

\* C35: the identity call made under the exclusive lock does not enter
\* checkAuth again, the lock is held by no goroutine outside checkAuth, and
\* a goroutine waiting for the read lock or the exclusive lock in checkAuth
\* eventually gets past it, every identity call returning.
C35_CheckAuthReleasesLock ==
  /\ [](\A g \in Goroutines : writer = g => apc[g] \in {"validate", "switch", "retry"})
  /\ \A g \in Goroutines :
       (apc[g] \in {"rlock", "lock"}) ~> (apc[g] \notin {"rlock", "lock"})

C35_Witness ==
  \E g, h \in Goroutines :
    /\ apc[g] = "lock" /\ writer = h /\ apc[h] = "retry"

\* C36: a task for which CancelTask returned nil is never passed to the
\* executor, whatever the workers did before and do after the call.
C36_CancelledNeverExecuted ==
  \A t \in cancelled : executed[t] = 0

\* C40: each task is passed to the executor at most once and stands at every
\* moment in at most one of q.pending, q.running and q.completed, once.
C40_OneListAtATime ==
  \A t \in 1..Len(ids) :
    /\ executed[t] <= 1
    /\ Cardinality({ i \in 1..Len(pending) : pending[i] = t })
       + Cardinality({ i \in 1..Len(running) : running[i] = t })
       + Cardinality({ i \in 1..Len(completed) : completed[i] = t }) <= 1

\* C37: Wait returns only when no task is pending and none is running, and a
\* Wait that is called returns in the end when the workers were started, the
\* queue is not stopped and every Execute call returns.
C37_WaitReturnsWhenIdle ==
  /\ [][ (wpc # "returned" /\ wpc' = "returned") => (pending = <<>> /\ running = <<>>) ]_vars
  /\ (wpc = "waiting" /\ started /\ ~stopped) ~> (wpc = "returned" \/ stopped)

C37_Witness ==
  /\ wpc = "returned" /\ started /\ ~stopped
  /\ Len(completed) >= 2 /\ pending = <<>> /\ running = <<>>

\* C38: listByFid returns after finitely many page requests, whatever the
\* service answers to them, with a total or without, reached or not.
C38_ListingTerminates ==
  (lpc = "loop") ~> (lpc # "loop")

\* C39: a destination of more than one character that ends in "/" is taken
\* as a directory: the file name is the local file's name, the directory is
\* the destination without its last "/", and the destination path (from which
\* the session key is made) is the directory, "/", and the local name.
C39_TrailingSlashIsDirectory ==
  (pDest # NoDest /\ Len(pIn) > 1 /\ pIn[Len(pIn)] = "/" /\ ~IsRootPath(normalizePath(pIn)))
    => /\ pDest.destFileName = localFileName
       /\ pDest.destDirPath = normalizePath(pIn)
       /\ pDest.destPath = normalizePath(pIn) \o <<"/">> \o localFileName

====
